---- MODULE Spec2Model ----
(***************************************************************************)
(* Model of the Qwen relay: the two stream drivers that turn an upstream   *)
(* chunk stream into stage callbacks (QwenThinkingClient.                  *)
(* ChatWithThinkingStream and Client.ChatStreamWithThinking), and the      *)
(* websocket hub (Hub.Run, readPump, writePump, handleMessage,             *)
(* sendMessage) that carries the callbacks to a connection's send channel. *)
(*                                                                         *)
(* Texts are sequences of tokens: the empty string is << >> and string     *)
(* concatenation is \o.                                                    *)
(***************************************************************************)
EXTENDS Naturals, Sequences, FiniteSets, TLC

VARIABLES
    \* ---- one run of a stream driver (a session) ----
    driver,            \* which driver function runs
    pc,                \* "start" | "reading" | "returned"
    nread,             \* lines / responses read from the upstream body so far
    toolBudget,        \* tool call descriptors the upstream may still send
    usageBudget,       \* usage blocks the upstream may still send
    reasoningContent,  \* var reasoningContent string
    answerContent,     \* var answerContent string  (fullResponse in Client)
    isAnswering,       \* isAnswering := false
    sink,              \* the calls made to callback, in order
    ret,               \* "running" | "nil" | "error" (the returned error) | "void"
    doCalls,           \* number of upstream calls issued (client.Do / CreateChatCompletionStream)
    closeCalls,        \* number of resp.Body.Close() / stream.Close() executed
    messages,          \* the messages argument of the call (the session's history)
    params,            \* q.params (ModelParams): the field EnableThinking
    sent,              \* the request bodies handed to the HTTP client, in order
    body,              \* the lines of resp.Body, when the upstream's output is given
    \* ---- calls on the client outside a session ----
    prompt,            \* the content argument of a processThinkingPrompt call
    parsed,            \* << >>, or <<content, mode>> returned by the last such call
    modeCalls,         \* history: the arguments of the SetThinkingMode calls, in order
    configs,           \* history: the configurations the client was given, in order
    setter,            \* << >>, or <<p, the fields stored so far>> of a running SetParams(p)
    observed,          \* ChatOmni: the values of c.params' fields it has read so far
    handlers,          \* per HTTP chat handler: its kind, message, place and stream mode
    \* ---- the websocket hub ----
    clients,           \* h.clients: the set of keys of the map
    hubpc,             \* what Hub.Run is doing: <<"idle">> or <<case, client>>
    cstate,            \* per connection: "new" | "serving" (ServeWS has started the pumps)
    send,              \* c.send: the buffered values of the channel
    sendClosed,        \* c.send has been closed
    connClosed,        \* c.conn.Close() has been called
    wire,              \* frames written to c.conn by writePump
    rpc,               \* readPump: "off" | "reading" | "unregistering" | "closing" | "done"
    wpumpc,            \* writePump: "off" | "running" | "done"
    hconn,             \* per request worker: its connection c (0: goroutine not started)
    hpc,               \* per request worker: its place in handleMessage/sendMessage
    hnext,             \* per request worker: index of the next callback of its session
    hpending,          \* per request worker: isComplete of the callback it is in
    fatal,             \* <<"none", 0>>, or <<the panic or fatal error that ended the
                       \* process, the connection whose goroutine raised it>>
    mapWriters         \* history: the functions that have written h.clients

streamVars == <<driver, pc, nread, toolBudget, usageBudget, reasoningContent,
                answerContent, isAnswering, sink, ret, doCalls, closeCalls,
                messages, params, sent, body>>

hubVars == <<clients, hubpc, cstate, send, sendClosed, connClosed, wire, rpc,
             wpumpc, hconn, hpc, hnext, hpending, fatal, mapWriters>>

clientVars == <<prompt, parsed, modeCalls, configs, setter, observed, handlers>>

vars == <<streamVars, hubVars, clientVars>>

(***************************************************************************)
(* Bounds of the model.                                                    *)
(***************************************************************************)
MaxLines == 3       \* lines read from one upstream body
MaxToolCalls == 2   \* tool call descriptors in one upstream body
MaxUsage == 1       \* usage blocks in one upstream body
MaxConns == 2       \* websocket connections served
MaxRequests == 2    \* handleMessage goroutines started, over all connections
MaxChunks == 2      \* "streaming" callbacks of one hub session
SendCap == 2        \* capacity of c.send (make(chan []byte, 256) in ServeWS)
MaxMessages == 2    \* messages in the history passed to a call
MaxPromptLen == 2   \* tokens in the content of one message
MaxBody == 4        \* lines of an upstream body given in advance
MaxParseLen == 5    \* tokens in the prompt of a processThinkingPrompt call
MaxSetCalls == 2    \* SetThinkingMode / SetParams calls on one client
MaxToolBody == 2    \* lines of an upstream body whose chunks carry tool calls
MaxDoneBody == 3    \* lines of an upstream body that may hold the line "[DONE]"
MaxHandlers == 2    \* HTTP chat requests handled at the same time

Conns == 1..MaxConns
Handlers == 1..MaxHandlers
Workers == 1..MaxRequests

(***************************************************************************)
(* Texts and upstream chunks.                                              *)
(***************************************************************************)
EmptyText == << >>

\* The incremental text carried by the n-th line in field kind.  Every
\* non-empty text is distinct, so order and duplication are observable.
Tok(kind, n) == << kind \o ToString(n) >>

\* QwenFunction values a tool call descriptor can carry: Name, Arguments.
ToolDescriptors ==
    { [Name |-> <<"f">>, Arguments |-> EmptyText],
      [Name |-> <<"g">>, Arguments |-> <<"x">>] }

\* The descriptor lists (delta.ToolCalls) of at most k entries.
ToolLists(k) ==
    UNION { [1..n -> ToolDescriptors] : n \in 0..k }

\* QwenThinkingStreamResponse after json.Unmarshal of the n-th line: Choices
\* (reduced to whether choices[0] exists and its Delta) and Usage.
Chunks(n, tools, usages) ==
    { [hasChoice |-> hc, ReasoningContent |-> r, Content |-> c,
       ToolCalls |-> t, hasUsage |-> u] :
        hc \in BOOLEAN,
        r \in {EmptyText, Tok("step", n)},
        c \in {EmptyText, Tok("ans", n)},
        t \in ToolLists(tools),
        u \in IF usages > 0 THEN BOOLEAN ELSE {FALSE} }

(***************************************************************************)
(* The callback: one call appends one record to the sink.                  *)
(***************************************************************************)
Callback(s, stage, content, isComplete) ==
    Append(s, [stage |-> stage, content |-> content, isComplete |-> isComplete])

(***************************************************************************)
(* The stage decoder of ChatWithThinkingStream.  A decoder state st is the *)
(* record of the locals reasoningContent, answerContent, isAnswering and   *)
(* of the callbacks made so far (sink).                                    *)
(***************************************************************************)
DecoderState ==
    [reasoningContent |-> reasoningContent, answerContent |-> answerContent,
     isAnswering |-> isAnswering, sink |-> sink]

\* HandleReasoning passing the accumulated text to the callback.
HandleReasoning_Whole(st, delta) ==
    IF delta.ReasoningContent # EmptyText
    THEN [st EXCEPT !.reasoningContent = @ \o delta.ReasoningContent,
                    !.sink = Callback(@, "thinking",
                                      st.reasoningContent \o delta.ReasoningContent, FALSE)]
    ELSE st

\* if delta.ReasoningContent != "" { reasoningContent += ...; callback("thinking", ...) }
HandleReasoning(st, delta) ==
    IF delta.ReasoningContent # EmptyText
    THEN [st EXCEPT !.reasoningContent = @ \o delta.ReasoningContent,
                    !.sink = Callback(@, "thinking", delta.ReasoningContent, FALSE)]
    ELSE st

\* HandleContent emitting "thinking_complete" only after some reasoning text.
HandleContent_AfterReasoning(st, delta) ==
    IF delta.Content # EmptyText
    THEN LET s1 == IF ~st.isAnswering
                   THEN [st EXCEPT !.sink = IF st.reasoningContent # EmptyText
                                            THEN Callback(@, "thinking_complete", EmptyText, FALSE)
                                            ELSE @,
                                   !.isAnswering = TRUE]
                   ELSE st
         IN  [s1 EXCEPT !.answerContent = @ \o delta.Content,
                        !.sink = Callback(@, "streaming", delta.Content, FALSE)]
    ELSE st

\* HandleContent without `isAnswering = true`.
HandleContent_NoFlip(st, delta) ==
    IF delta.Content # EmptyText
    THEN LET s1 == IF ~st.isAnswering
                   THEN [st EXCEPT !.sink = Callback(@, "thinking_complete", EmptyText, FALSE)]
                   ELSE st
         IN  [s1 EXCEPT !.answerContent = @ \o delta.Content,
                        !.sink = Callback(@, "streaming", delta.Content, FALSE)]
    ELSE st

\* if delta.Content != "" { if !isAnswering { callback("thinking_complete", "", false);
\*   isAnswering = true }; answerContent += ...; callback("streaming", ...) }
HandleContent(st, delta) ==
    IF delta.Content # EmptyText
    THEN LET s1 == IF ~st.isAnswering
                   THEN [st EXCEPT !.sink = Callback(@, "thinking_complete", EmptyText, FALSE),
                                   !.isAnswering = TRUE]
                   ELSE st
         IN  [s1 EXCEPT !.answerContent = @ \o delta.Content,
                        !.sink = Callback(@, "streaming", delta.Content, FALSE)]
    ELSE st

\* ToolInfo leaving the arguments out.
ToolInfo_NameOnly(toolCall) == <<"Tool: ">> \o toolCall.Function.Name

\* toolInfo := "Tool: " + Name; if Arguments != "" { toolInfo += " - Args: " + Arguments }
ToolInfo(toolCall) ==
    <<"Tool: ">> \o toolCall.Function.Name \o
        (IF toolCall.Function.Arguments # EmptyText
         THEN <<" - Args: ">> \o toolCall.Function.Arguments
         ELSE EmptyText)

\* for _, toolCall := range delta.ToolCalls { callback("tool_call", toolInfo, false) }
RECURSIVE HandleToolCalls(_, _)
HandleToolCalls(st, toolCalls) ==
    IF toolCalls = << >>
    THEN st
    ELSE HandleToolCalls(
             [st EXCEPT !.sink = Callback(@, "tool_call",
                                          ToolInfo([Function |-> Head(toolCalls)]), FALSE)],
             Tail(toolCalls))

\* if streamResp.Usage != nil { callback("usage", usageInfo, false) }
HandleUsage(st, chunk) ==
    IF chunk.hasUsage
    THEN [st EXCEPT !.sink = Callback(@, "usage", <<"Tokens">>, FALSE)]
    ELSE st

\* ProcessChunk reading Usage only inside `if len(streamResp.Choices) > 0`.
ProcessChunk_UsageInChoice(st, chunk) ==
    IF chunk.hasChoice
    THEN HandleUsage(HandleToolCalls(
                         HandleContent(HandleReasoning(st, chunk), chunk),
                         chunk.ToolCalls),
                     chunk)
    ELSE st

\* The body of the read loop for one successfully parsed line.
ProcessChunk(st, chunk) ==
    LET afterChoices ==
            IF chunk.hasChoice
            THEN HandleToolCalls(
                     HandleContent(HandleReasoning(st, chunk), chunk),
                     chunk.ToolCalls)
            ELSE st
    IN  HandleUsage(afterChoices, chunk)

(***************************************************************************)
(* The request.  The content of a message is a sequence of tokens: a word, *)
(* a blank, or one of the two directives.  A word holds no "/", so the     *)
(* string has the suffix "/think" or "/no_think" exactly when that is its  *)
(* last token.                                                             *)
(***************************************************************************)
PromptTokens == {"Hello", "world", " ", "/think", "/no_think"}

Prompts == UNION { [1..n -> PromptTokens] : n \in 0..MaxPromptLen }

Roles == {"user", "assistant"}

\* []QwenMessage of at most MaxMessages entries.
MessageLists ==
    UNION { [1..n -> [Role : Roles, Content : Prompts]] : n \in 0..MaxMessages }

\* strings.TrimSpace
RECURSIVE TrimLeft(_)
TrimLeft(t) == IF t # << >> /\ Head(t) = " " THEN TrimLeft(Tail(t)) ELSE t

RECURSIVE TrimRight(_)
TrimRight(t) ==
    IF t # << >> /\ t[Len(t)] = " " THEN TrimRight(SubSeq(t, 1, Len(t) - 1)) ELSE t

\* TrimSpace cutting leading blanks only.
TrimSpace_LeftOnly(t) == TrimLeft(t)

TrimSpace(t) == TrimRight(TrimLeft(t))

\* HasSuffix finding the token anywhere in the text.
HasSuffix_Anywhere(t, token) == \E i \in 1..Len(t) : t[i] = token

\* TrimSuffix cutting nothing.
TrimSuffix_None(t, token) == t

\* strings.HasSuffix and strings.TrimSuffix for a directive token
HasSuffix(t, token) == t # << >> /\ t[Len(t)] = token

TrimSuffix(t, token) == IF HasSuffix(t, token) THEN SubSeq(t, 1, Len(t) - 1) ELSE t

\* processThinkingPrompt without the TrimSpace that follows TrimSuffix.
processThinkingPrompt_KeepBlank(p, content) ==
    LET trimmed == TrimSpace(content)
    IN  IF HasSuffix(trimmed, "/no_think")
        THEN <<TrimSuffix(trimmed, "/no_think"), FALSE>>
        ELSE IF HasSuffix(trimmed, "/think")
        THEN <<TrimSuffix(trimmed, "/think"), TRUE>>
        ELSE <<trimmed, p.EnableThinking>>

\* processThinkingPrompt: <<the cleaned content, the thinking mode>>.
processThinkingPrompt(p, content) ==
    LET trimmed == TrimSpace(content)
    IN  IF HasSuffix(trimmed, "/no_think")
        THEN <<TrimSpace(TrimSuffix(trimmed, "/no_think")), FALSE>>
        ELSE IF HasSuffix(trimmed, "/think")
        THEN <<TrimSpace(TrimSuffix(trimmed, "/think")), TRUE>>
        ELSE <<trimmed, p.EnableThinking>>

\* ThinkingEnabled without the test of the last message's role.
ThinkingEnabled_AnyRole(msgs, p) ==
    IF Len(msgs) > 0
    THEN processThinkingPrompt(p, msgs[Len(msgs)].Content)[2]
    ELSE FALSE

\* var thinkingEnabled bool; set from processThinkingPrompt when the last
\* message has the role "user".
ThinkingEnabled(msgs, p) ==
    IF Len(msgs) > 0 /\ msgs[Len(msgs)].Role = "user"
    THEN processThinkingPrompt(p, msgs[Len(msgs)].Content)[2]
    ELSE FALSE

\* reqBody := QwenThinkingRequest{Model, Messages, Stream: true}, with
\* ExtraBody = {"enable_thinking": true} when thinkingEnabled.  ExtraBody is
\* the set of the map's entries.
BuildRequest(msgs, p) ==
    [Model |-> "q.model", Messages |-> msgs, Stream |-> TRUE,
     ExtraBody |-> IF ThinkingEnabled(msgs, p) THEN {<<"enable_thinking", TRUE>>} ELSE {}]

\* json.Marshal(reqBody): the JSON object, by the struct tags of
\* QwenThinkingRequest; the field tagged `json:"-"` is left out.
MarshalRequest(reqBody) ==
    [model |-> reqBody.Model, messages |-> reqBody.Messages, stream |-> reqBody.Stream]

\* The openai.ChatCompletionRequest of Client.ChatStreamWithThinking.
PlainRequest(userMessage) ==
    [model |-> "c.model",
     messages |-> << [Role |-> "system", Content |-> <<"systemPrompt">>],
                     [Role |-> "user", Content |-> userMessage] >>,
     stream |-> TRUE, temperature |-> "0.8", top_p |-> "0.95"]

\* type ModelParams struct { Temperature; TopK; TopP; EnableThinking }
ParamFields == {"Temperature", "TopK", "TopP", "EnableThinking"}

\* defaultParams, the parameters NewQwenThinkingClient gives a new client.
\* EnableThinking is true; a sampling field is "default" until a caller sets it.
defaultParams ==
    [Temperature |-> "default", TopK |-> "default", TopP |-> "default",
     EnableThinking |-> TRUE]

\* The ModelParams values a caller passes to SetParams: each sampling field
\* is left at its default or set (0.7, 40 and 0.9 in the README's example).
ModelParamsValues ==
    [Temperature : {"default", "0.7"}, TopK : {"default", "40"},
     TopP : {"default", "0.9"}, EnableThinking : BOOLEAN]

\* No SetParams, SetThinkingMode, processThinkingPrompt or ChatOmni call has
\* been made on the client.
NoClientCalls ==
    /\ parsed = << >>
    /\ modeCalls = << >>
    /\ configs = <<params>>
    /\ setter = << >>
    /\ observed = << >>

\* No HTTP chat request is being handled.
NoRequests ==
    handlers = [h \in Handlers |->
                    [kind |-> "none", message |-> EmptyText, pc |-> "idle", mode |-> FALSE]]

\* A call with one user message on a new client.
OneUserMessage ==
    /\ messages = << [Role |-> "user", Content |-> <<"Hello">>] >>
    /\ params = defaultParams
    /\ prompt = EmptyText
    /\ NoClientCalls
    /\ NoRequests

(***************************************************************************)
(* QwenThinkingClient.ChatWithThinkingStream as a state machine.           *)
(***************************************************************************)
Qwen == "ChatWithThinkingStream"
Plain == "ChatStreamWithThinking"

HubUnchanged == UNCHANGED <<hubVars, clientVars>>

\* client.Do(req) returns an error: the function returns it; nothing was opened.
QwenDoFails ==
    /\ driver = Qwen /\ pc = "start"
    /\ doCalls' = doCalls + 1
    /\ sent' = Append(sent, MarshalRequest(BuildRequest(messages, params)))
    /\ ret' = "error"
    /\ pc' = "returned"
    /\ UNCHANGED <<messages, params, body>>
    /\ UNCHANGED <<driver, nread, toolBudget, usageBudget, reasoningContent,
                   answerContent, isAnswering, sink, closeCalls>>
    /\ HubUnchanged

\* resp.StatusCode != 200: the error is returned and the deferred
\* resp.Body.Close() runs.
QwenRejected ==
    /\ driver = Qwen /\ pc = "start"
    /\ doCalls' = doCalls + 1
    /\ sent' = Append(sent, MarshalRequest(BuildRequest(messages, params)))
    /\ closeCalls' = closeCalls + 1
    /\ ret' = "error"
    /\ pc' = "returned"
    /\ UNCHANGED <<messages, params, body>>
    /\ UNCHANGED <<driver, nread, toolBudget, usageBudget, reasoningContent,
                   answerContent, isAnswering, sink>>
    /\ HubUnchanged

\* The call is accepted: the locals are initialised and the read loop starts.
QwenOpened ==
    /\ driver = Qwen /\ pc = "start"
    /\ doCalls' = doCalls + 1
    /\ sent' = Append(sent, MarshalRequest(BuildRequest(messages, params)))
    /\ reasoningContent' = EmptyText
    /\ answerContent' = EmptyText
    /\ isAnswering' = FALSE
    /\ pc' = "reading"
    /\ UNCHANGED <<messages, params, body>>
    /\ UNCHANGED <<driver, nread, toolBudget, usageBudget, sink, ret, closeCalls>>
    /\ HubUnchanged

\* QwenFinish passing the reasoning text along with the answer text.
QwenFinish_WithReasoning ==
    /\ sink' = Callback(sink, "complete", reasoningContent \o answerContent, TRUE)
    /\ ret' = "nil"
    /\ closeCalls' = closeCalls + 1
    /\ pc' = "returned"

\* QwenFinish marking the end of reasoning when no answer text came.
QwenFinish_ClosesReasoning ==
    /\ sink' = Callback(IF isAnswering THEN sink
                        ELSE Callback(sink, "thinking_complete", EmptyText, FALSE),
                        "complete", answerContent, TRUE)
    /\ ret' = "nil"
    /\ closeCalls' = closeCalls + 1
    /\ pc' = "returned"

\* After the loop: callback("complete", answerContent, true); return nil, with
\* the deferred Close.
QwenFinish ==
    /\ sink' = Callback(sink, "complete", answerContent, TRUE)
    /\ ret' = "nil"
    /\ closeCalls' = closeCalls + 1
    /\ pc' = "returned"

\* reader.ReadString returns io.EOF: break.
QwenReadEOF ==
    /\ driver = Qwen /\ pc = "reading"
    /\ QwenFinish
    /\ UNCHANGED <<messages, params, sent, body>>
    /\ UNCHANGED <<driver, nread, toolBudget, usageBudget, reasoningContent,
                   answerContent, isAnswering, doCalls>>
    /\ HubUnchanged

\* QwenReadError without the deferred resp.Body.Close().
QwenReadError_NoClose ==
    /\ driver = Qwen /\ pc = "reading"
    /\ ret' = "error"
    /\ pc' = "returned"
    /\ UNCHANGED <<messages, params, sent, body>>
    /\ UNCHANGED <<driver, nread, toolBudget, usageBudget, reasoningContent,
                   answerContent, isAnswering, sink, doCalls, closeCalls>>
    /\ HubUnchanged

\* reader.ReadString returns another error: return it (deferred Close runs).
QwenReadError ==
    /\ driver = Qwen /\ pc = "reading"
    /\ ret' = "error"
    /\ closeCalls' = closeCalls + 1
    /\ pc' = "returned"
    /\ UNCHANGED <<messages, params, sent, body>>
    /\ UNCHANGED <<driver, nread, toolBudget, usageBudget, reasoningContent,
                   answerContent, isAnswering, sink, doCalls>>
    /\ HubUnchanged

\* A line that is empty after TrimSpace: continue.
QwenReadBlank ==
    /\ driver = Qwen /\ pc = "reading" /\ nread < MaxLines
    /\ nread' = nread + 1
    /\ UNCHANGED <<messages, params, sent, body>>
    /\ UNCHANGED <<driver, pc, toolBudget, usageBudget, reasoningContent,
                   answerContent, isAnswering, sink, ret, doCalls, closeCalls>>
    /\ HubUnchanged

\* The line "[DONE]" (after the "data: " prefix is removed): break.
QwenReadDone ==
    /\ driver = Qwen /\ pc = "reading" /\ nread < MaxLines
    /\ nread' = nread + 1
    /\ QwenFinish
    /\ UNCHANGED <<messages, params, sent, body>>
    /\ UNCHANGED <<driver, toolBudget, usageBudget, reasoningContent,
                   answerContent, isAnswering, doCalls>>
    /\ HubUnchanged

\* json.Unmarshal fails: continue.
QwenReadMalformed ==
    /\ driver = Qwen /\ pc = "reading" /\ nread < MaxLines
    /\ nread' = nread + 1
    /\ UNCHANGED <<messages, params, sent, body>>
    /\ UNCHANGED <<driver, pc, toolBudget, usageBudget, reasoningContent,
                   answerContent, isAnswering, sink, ret, doCalls, closeCalls>>
    /\ HubUnchanged

\* A line that parses: the loop body runs on it.
QwenReadChunk ==
    /\ driver = Qwen /\ pc = "reading" /\ nread < MaxLines
    /\ \E chunk \in Chunks(nread + 1, toolBudget, usageBudget) :
         LET st == ProcessChunk(DecoderState, chunk)
         IN  /\ reasoningContent' = st.reasoningContent
             /\ answerContent' = st.answerContent
             /\ isAnswering' = st.isAnswering
             /\ sink' = st.sink
             /\ toolBudget' = toolBudget - Len(chunk.ToolCalls)
             /\ usageBudget' = IF chunk.hasUsage THEN usageBudget - 1 ELSE usageBudget
    /\ nread' = nread + 1
    /\ UNCHANGED <<messages, params, sent, body>>
    /\ UNCHANGED <<driver, pc, ret, doCalls, closeCalls>>
    /\ HubUnchanged

(***************************************************************************)
(* Client.ChatStreamWithThinking as a state machine.  fullResponse is kept *)
(* in answerContent.                                                       *)
(***************************************************************************)
\* CreateChatCompletionStream fails: callback("error", ..., true); return.
ClientOpenFails ==
    /\ driver = Plain /\ pc = "start"
    /\ doCalls' = doCalls + 1
    /\ sent' = Append(sent, PlainRequest(messages[Len(messages)].Content))
    /\ sink' = Callback(sink, "error", <<"Error">>, TRUE)
    /\ ret' = "void"
    /\ pc' = "returned"
    /\ UNCHANGED <<messages, params, body>>
    /\ UNCHANGED <<driver, nread, toolBudget, usageBudget, reasoningContent,
                   answerContent, isAnswering, closeCalls>>
    /\ HubUnchanged

ClientOpened ==
    /\ driver = Plain /\ pc = "start"
    /\ doCalls' = doCalls + 1
    /\ sent' = Append(sent, PlainRequest(messages[Len(messages)].Content))
    /\ answerContent' = EmptyText
    /\ pc' = "reading"
    /\ UNCHANGED <<messages, params, body>>
    /\ UNCHANGED <<driver, nread, toolBudget, usageBudget, reasoningContent,
                   isAnswering, sink, ret, closeCalls>>
    /\ HubUnchanged

\* stream.Recv() returns io.EOF: callback("complete", fullResponse, true); return.
ClientRecvEOF ==
    /\ driver = Plain /\ pc = "reading"
    /\ sink' = Callback(sink, "complete", answerContent, TRUE)
    /\ ret' = "void"
    /\ closeCalls' = closeCalls + 1
    /\ pc' = "returned"
    /\ UNCHANGED <<messages, params, sent, body>>
    /\ UNCHANGED <<driver, nread, toolBudget, usageBudget, reasoningContent,
                   answerContent, isAnswering, doCalls>>
    /\ HubUnchanged

\* stream.Recv() returns another error: callback("error", ..., true); return.
ClientRecvError ==
    /\ driver = Plain /\ pc = "reading"
    /\ sink' = Callback(sink, "error", <<"Stream error">>, TRUE)
    /\ ret' = "void"
    /\ closeCalls' = closeCalls + 1
    /\ pc' = "returned"
    /\ UNCHANGED <<messages, params, sent, body>>
    /\ UNCHANGED <<driver, nread, toolBudget, usageBudget, reasoningContent,
                   answerContent, isAnswering, doCalls>>
    /\ HubUnchanged

\* A response: if it has a choice whose delta content is not empty, the chunk
\* is appended to fullResponse and passed to callback("streaming", chunk, false).
ClientRecvResponse ==
    /\ driver = Plain /\ pc = "reading" /\ nread < MaxLines
    /\ \E hasChoice \in BOOLEAN, chunk \in {EmptyText, Tok("ans", nread + 1)} :
         IF hasChoice /\ chunk # EmptyText
         THEN /\ answerContent' = answerContent \o chunk
              /\ sink' = Callback(sink, "streaming", chunk, FALSE)
         ELSE UNCHANGED <<answerContent, sink>>
    /\ nread' = nread + 1
    /\ UNCHANGED <<messages, params, sent, body>>
    /\ UNCHANGED <<driver, pc, toolBudget, usageBudget, reasoningContent,
                   isAnswering, ret, doCalls, closeCalls>>
    /\ HubUnchanged

(***************************************************************************)
(* Initial states.                                                         *)
(***************************************************************************)
\* NewHub, before any ServeWS call.
HubInit ==
    /\ clients = {}
    /\ hubpc = <<"idle", 0>>
    /\ cstate = [c \in Conns |-> "new"]
    /\ send = [c \in Conns |-> << >>]
    /\ sendClosed = [c \in Conns |-> FALSE]
    /\ connClosed = [c \in Conns |-> FALSE]
    /\ wire = [c \in Conns |-> << >>]
    /\ rpc = [c \in Conns |-> "off"]
    /\ wpumpc = [c \in Conns |-> "off"]
    /\ hconn = [w \in Workers |-> 0]
    /\ hpc = [w \in Workers |-> "off"]
    /\ hnext = [w \in Workers |-> 0]
    /\ hpending = [w \in Workers |-> FALSE]
    /\ fatal = <<"none", 0>>
    /\ mapWriters = {}

\* A driver call that has not executed its first statement.
StreamInit(d) ==
    /\ driver = d
    /\ pc = "start"
    /\ nread = 0
    /\ toolBudget = MaxToolCalls
    /\ usageBudget = MaxUsage
    /\ reasoningContent = EmptyText
    /\ answerContent = EmptyText
    /\ isAnswering = FALSE
    /\ sink = << >>
    /\ ret = "running"
    /\ doCalls = 0
    /\ closeCalls = 0
    /\ sent = << >>

(***************************************************************************)
(* SpecStream: one session of either stream driver, over every upstream    *)
(* behaviour within the bounds.                                            *)
(***************************************************************************)
InitStream ==
    /\ \E d \in {Qwen, Plain} : StreamInit(d)
    /\ OneUserMessage
    /\ body = << >>
    /\ HubInit

NextStream ==
    \/ QwenDoFails
    \/ QwenRejected
    \/ QwenOpened
    \/ QwenReadEOF
    \/ QwenReadError
    \/ QwenReadBlank
    \/ QwenReadDone
    \/ QwenReadMalformed
    \/ QwenReadChunk
    \/ ClientOpenFails
    \/ ClientOpened
    \/ ClientRecvEOF
    \/ ClientRecvError
    \/ ClientRecvResponse

SpecStream == InitStream /\ [][NextStream]_vars

(***************************************************************************)
(* SpecScenario: ChatWithThinkingStream reading an upstream body that is   *)
(* given in advance: a sequence of lines, each a chunk carrying reasoning  *)
(* text, answer text or both, or a line that is not JSON, ended by io.EOF. *)
(***************************************************************************)
ReasoningTexts == {EmptyText, Tok("step", 1), Tok("step", 2)}

AnswerTexts == {EmptyText, Tok("ans", 1), Tok("ans", 2), <<"hi">>}

\* QwenThinkingStreamResponse with one choice whose delta carries r and c.
TextChunk(r, c) ==
    [hasChoice |-> TRUE, ReasoningContent |-> r, Content |-> c,
     ToolCalls |-> << >>, hasUsage |-> FALSE]

\* The texts one chunk carries: reasoning text, answer text, neither, or
\* reasoning text together with the answer text "ans1".
ChunkContents ==
    { rc \in ReasoningTexts \X AnswerTexts :
          rc[1] = EmptyText \/ rc[2] = EmptyText \/ rc[2] = Tok("ans", 1) }

BodyLines ==
    { [kind |-> "chunk", chunk |-> TextChunk(rc[1], rc[2])] : rc \in ChunkContents }
    \cup { [kind |-> "malformed", chunk |-> TextChunk(EmptyText, EmptyText)] }

Bodies == UNION { [1..n -> BodyLines] : n \in 0..MaxBody }

\* ReadLine treating a line that fails json.Unmarshal as a read error.
ReadLine_Abort(st, line) ==
    IF line.kind = "malformed"
    THEN [st EXCEPT !.sink = Callback(@, "error", <<"malformed">>, TRUE)]
    ELSE ProcessChunk(st, line.chunk)

\* The loop body on one line: `continue` if json.Unmarshal fails, else the
\* handlers.
ReadLine(st, line) ==
    IF line.kind = "malformed"
    THEN st
    ELSE ProcessChunk(st, line.chunk)

\* reader.ReadString returns the next line of the body.
BodyReadLine ==
    /\ driver = Qwen /\ pc = "reading" /\ nread < Len(body)
    /\ body[nread + 1].kind # "done"
    /\ LET st == ReadLine(DecoderState, body[nread + 1])
       IN  /\ reasoningContent' = st.reasoningContent
           /\ answerContent' = st.answerContent
           /\ isAnswering' = st.isAnswering
           /\ sink' = st.sink
    /\ nread' = nread + 1
    /\ UNCHANGED <<messages, params, sent, body>>
    /\ UNCHANGED <<driver, pc, toolBudget, usageBudget, ret, doCalls, closeCalls>>
    /\ HubUnchanged

\* reader.ReadString returns io.EOF at the end of the body: break.
BodyReadEOF ==
    /\ driver = Qwen /\ pc = "reading" /\ nread = Len(body)
    /\ QwenFinish
    /\ UNCHANGED <<messages, params, sent, body>>
    /\ UNCHANGED <<driver, nread, toolBudget, usageBudget, reasoningContent,
                   answerContent, isAnswering, doCalls>>
    /\ HubUnchanged

InitScenario ==
    /\ StreamInit(Qwen)
    /\ OneUserMessage
    /\ body \in Bodies
    /\ HubInit

NextScenario ==
    \/ QwenOpened
    \/ BodyReadLine
    \/ BodyReadEOF

SpecScenario == InitScenario /\ [][NextScenario]_vars

(***************************************************************************)
(* SpecRequest: how ChatWithThinkingStream issues its upstream call, over  *)
(* the message histories and parameters within the bounds.                *)
(***************************************************************************)
InitRequest ==
    /\ StreamInit(Qwen)
    /\ messages \in MessageLists
    /\ params \in {[defaultParams EXCEPT !.EnableThinking = b] : b \in BOOLEAN}
    /\ prompt = EmptyText
    /\ NoClientCalls
    /\ NoRequests
    /\ body = << >>
    /\ HubInit

NextRequest ==
    \/ QwenDoFails
    \/ QwenRejected
    \/ QwenOpened
    \/ QwenReadEOF
    \/ QwenReadError

SpecRequest == InitRequest /\ [][NextRequest]_vars

(***************************************************************************)
(* Calls on the client outside a session: SetThinkingMode, SetParams,      *)
(* processThinkingPrompt, and the reads of c.params by ChatOmni.  None of  *)
(* them takes a lock.                                                      *)
(***************************************************************************)
\* A call on the client leaves the session and the hub alone.
SessionUnchanged ==
    /\ UNCHANGED <<driver, pc, nread, toolBudget, usageBudget, reasoningContent,
                   answerContent, isAnswering, sink, ret, doCalls, closeCalls,
                   messages, sent, body>>
    /\ UNCHANGED hubVars

\* StoreThinkingMode leaving q.params as it was.
StoreThinkingMode_Ignored(p, enabled) == p

\* q.params.EnableThinking = enabled
StoreThinkingMode(p, enabled) == [p EXCEPT !.EnableThinking = enabled]

\* func (q *QwenThinkingClient) SetThinkingMode(enabled bool): one store to
\* one field of q.params.
SetThinkingMode(enabled) ==
    /\ setter = << >>
    /\ Len(configs) <= MaxSetCalls
    /\ params' = StoreThinkingMode(params, enabled)
    /\ modeCalls' = Append(modeCalls, enabled)
    /\ configs' = Append(configs, [params EXCEPT !.EnableThinking = enabled])
    /\ UNCHANGED <<prompt, parsed, setter, observed, handlers>>
    /\ SessionUnchanged

\* func (q *QwenThinkingClient) SetParams(p ModelParams) is called.
SetParamsCall(p) ==
    /\ setter = << >>
    /\ Len(configs) <= MaxSetCalls
    /\ setter' = <<p, {}>>
    /\ configs' = Append(configs, p)
    /\ UNCHANGED <<params, prompt, parsed, modeCalls, observed, handlers>>
    /\ SessionUnchanged

\* q.params = p: the assignment of a struct of four fields is not one
\* atomic store.  It runs without a lock, so for a concurrent reader it is
\* a store per field, in an order the build chooses.
SetParamsStore(f) ==
    /\ setter # << >>
    /\ f \in ParamFields \ setter[2]
    /\ params' = [params EXCEPT ![f] = setter[1][f]]
    /\ setter' = <<setter[1], setter[2] \cup {f}>>
    /\ UNCHANGED <<prompt, parsed, modeCalls, configs, observed, handlers>>
    /\ SessionUnchanged

\* SetParams returns when every field is stored.
SetParamsReturn ==
    /\ setter # << >>
    /\ setter[2] = ParamFields
    /\ setter' = << >>
    /\ UNCHANGED <<params, prompt, parsed, modeCalls, configs, observed, handlers>>
    /\ SessionUnchanged

\* ChatOmni builds its request from "temperature": c.params.Temperature,
\* "top_p": c.params.TopP, "top_k": c.params.TopK: three reads, in this order.
OmniFields == <<"Temperature", "TopP", "TopK">>

\* ChatOmni, in a request worker, reads the next of the three fields.
OmniRead ==
    /\ Len(observed) < Len(OmniFields)
    /\ observed' = Append(observed, params[OmniFields[Len(observed) + 1]])
    /\ UNCHANGED <<params, prompt, parsed, modeCalls, configs, setter, handlers>>
    /\ SessionUnchanged

\* A call q.processThinkingPrompt(prompt) returns.
CallProcessThinkingPrompt ==
    /\ parsed' = processThinkingPrompt(params, prompt)
    /\ UNCHANGED <<params, prompt, modeCalls, configs, setter, observed, handlers>>
    /\ SessionUnchanged

\* client := NewQwenThinkingClient(apiKey, baseURL, model): params is
\* defaultParams and no session runs.
NewQwenThinkingClient ==
    /\ StreamInit("none")
    /\ messages = << >>
    /\ params = defaultParams
    /\ body = << >>
    /\ NoClientCalls
    /\ HubInit

(***************************************************************************)
(* SpecParse: processThinkingPrompt on every prompt within the bounds,     *)
(* between SetThinkingMode calls on a new client.                          *)
(***************************************************************************)
ParsePrompts == UNION { [1..n -> PromptTokens] : n \in 0..MaxParseLen }

InitParse ==
    /\ NewQwenThinkingClient
    /\ NoRequests
    /\ prompt \in ParsePrompts

NextParse ==
    \/ \E enabled \in BOOLEAN : SetThinkingMode(enabled)
    \/ CallProcessThinkingPrompt

SpecParse == InitParse /\ [][NextParse]_vars

(***************************************************************************)
(* SpecParams: one goroutine calling SetThinkingMode and SetParams while a *)
(* request worker runs ChatOmni on the same client.                        *)
(***************************************************************************)
InitParams ==
    /\ NewQwenThinkingClient
    /\ NoRequests
    /\ prompt = EmptyText

NextParams ==
    \/ \E enabled \in BOOLEAN : SetThinkingMode(enabled)
    \/ \E p \in ModelParamsValues : SetParamsCall(p)
    \/ \E f \in ParamFields : SetParamsStore(f)
    \/ SetParamsReturn
    \/ OmniRead

SpecParams == InitParams /\ [][NextParams]_vars

(***************************************************************************)
(* QwenThinkingClient.ChatWithThinking: ChatWithThinkingStream run with a  *)
(* callback that collects the texts into a ThinkingResponse.               *)
(***************************************************************************)
\* response := &ThinkingResponse{}
NewThinkingResponse ==
    [ReasoningContent |-> EmptyText, AnswerContent |-> EmptyText, IsComplete |-> FALSE]

\* OnCallback adding the content of "complete" to AnswerContent as well.
OnCallback_CompleteAppends(response, e) ==
    CASE e.stage = "thinking" ->
             [response EXCEPT !.ReasoningContent = @ \o e.content]
      [] e.stage = "streaming" ->
             [response EXCEPT !.AnswerContent = @ \o e.content]
      [] e.stage = "complete" ->
             [response EXCEPT !.AnswerContent = @ \o e.content, !.IsComplete = TRUE]
      [] OTHER -> response

\* The callback: switch stage { case "thinking": ReasoningContent += content;
\* case "streaming": AnswerContent += content; case "complete": IsComplete = true }
OnCallback(response, e) ==
    CASE e.stage = "thinking" ->
             [response EXCEPT !.ReasoningContent = @ \o e.content]
      [] e.stage = "streaming" ->
             [response EXCEPT !.AnswerContent = @ \o e.content]
      [] e.stage = "complete" ->
             [response EXCEPT !.IsComplete = TRUE]
      [] OTHER -> response

\* The response after the callbacks s, in order.
RECURSIVE Collect(_, _)
Collect(response, s) ==
    IF s = << >> THEN response ELSE Collect(OnCallback(response, Head(s)), Tail(s))

\* What ChatWithThinking returns when ChatWithThinkingStream has returned:
\* (nil, err) if err != nil, else (response, nil).
ChatWithThinkingReturn ==
    IF ret = "error"
    THEN [isNil |-> TRUE, response |-> NewThinkingResponse, err |-> "error"]
    ELSE [isNil |-> FALSE, response |-> Collect(NewThinkingResponse, sink), err |-> "nil"]

(***************************************************************************)
(* SpecHandlers: the HTTP chat handlers of the example server, each in its *)
(* own goroutine, on the one client of the server.  handleThinkingChat     *)
(* calls SetThinkingMode(true) and then ChatStreamWithThinking;            *)
(* handleRegularChat calls SetThinkingMode(false) and then ChatStream.     *)
(***************************************************************************)
HandlerKinds == {"thinking", "regular"}

\* The reasoning mode of the stream a handler starts: ChatStreamWithThinking
\* takes it from the directive parser, which falls back on the client's
\* EnableThinking; ChatStream asks for no reasoning.
StreamMode(kind, p, message) ==
    IF kind = "thinking" THEN processThinkingPrompt(p, message)[2] ELSE FALSE

\* s.aiClient.SetThinkingMode(true) in handleThinkingChat,
\* s.aiClient.SetThinkingMode(false) in handleRegularChat.
HandlerSetThinkingMode(h) ==
    /\ handlers[h].pc = "set"
    /\ params' = StoreThinkingMode(params, handlers[h].kind = "thinking")
    /\ modeCalls' = Append(modeCalls, handlers[h].kind = "thinking")
    /\ handlers' = [handlers EXCEPT ![h].pc = "start"]
    /\ UNCHANGED <<prompt, parsed, configs, setter, observed>>
    /\ SessionUnchanged

\* The handler's next statement starts its stream.
HandlerStartStream(h) ==
    /\ handlers[h].pc = "start"
    /\ handlers' = [handlers EXCEPT
                        ![h].pc = "streaming",
                        ![h].mode = StreamMode(handlers[h].kind, params, handlers[h].message)]
    /\ UNCHANGED <<params, prompt, parsed, modeCalls, configs, setter, observed>>
    /\ SessionUnchanged

\* handleChat has dispatched MaxHandlers requests, each to one of the two
\* handlers with its req.Message.
InitHandlers ==
    /\ NewQwenThinkingClient
    /\ prompt = EmptyText
    /\ handlers \in [Handlers ->
                        [kind : HandlerKinds, message : Prompts, pc : {"set"}, mode : {FALSE}]]

NextHandlers ==
    \/ \E h \in Handlers : HandlerSetThinkingMode(h)
    \/ \E h \in Handlers : HandlerStartStream(h)

SpecHandlers == InitHandlers /\ [][NextHandlers]_vars

(***************************************************************************)
(* SpecTools: ChatWithThinkingStream reading a body, given in advance,     *)
(* whose chunks carry tool call descriptors, with or without answer text.  *)
(***************************************************************************)
\* QwenThinkingStreamResponse with one choice whose delta carries the
\* content c and the tool calls.
ToolChunk(c, toolCalls) ==
    [hasChoice |-> TRUE, ReasoningContent |-> EmptyText, Content |-> c,
     ToolCalls |-> toolCalls, hasUsage |-> FALSE]

ToolBodyLines ==
    { [kind |-> "chunk", chunk |-> ToolChunk(c, t)] :
          c \in {EmptyText, Tok("ans", 1)}, t \in ToolLists(MaxToolCalls) }

ToolBodies == UNION { [1..n -> ToolBodyLines] : n \in 0..MaxToolBody }

InitTools ==
    /\ StreamInit(Qwen)
    /\ OneUserMessage
    /\ body \in ToolBodies
    /\ HubInit

NextTools ==
    \/ QwenOpened
    \/ BodyReadLine
    \/ BodyReadEOF

SpecTools == InitTools /\ [][NextTools]_vars

(***************************************************************************)
(* SpecChunks: ChatWithThinkingStream reading one chunk that carries any   *)
(* combination of reasoning text, answer text, tool calls and usage, with  *)
(* or without choices, as the first line of the body or after a line of    *)
(* answer text.                                                            *)
(***************************************************************************)
\* A line whose chunk carries the answer text "ans1" only.
AnswerLine ==
    [kind |-> "chunk", chunk |-> TextChunk(EmptyText, Tok("ans", 1))]

ChunkBodies ==
    LET lines == { [kind |-> "chunk", chunk |-> ch] :
                       ch \in Chunks(2, MaxToolCalls, MaxUsage) }
    IN  { <<l>> : l \in lines } \cup { <<AnswerLine, l>> : l \in lines }

InitChunks ==
    /\ StreamInit(Qwen)
    /\ OneUserMessage
    /\ body \in ChunkBodies
    /\ HubInit

NextChunks ==
    \/ QwenOpened
    \/ BodyReadLine
    \/ BodyReadEOF

SpecChunks == InitChunks /\ [][NextChunks]_vars

(***************************************************************************)
(* SpecDone: ChatWithThinkingStream reading a body, given in advance, that *)
(* may hold the line "[DONE]" anywhere, also before other lines.           *)
(***************************************************************************)
\* The line "data: [DONE]".
DoneLine == [kind |-> "done", chunk |-> TextChunk(EmptyText, EmptyText)]

DoneBodyLines ==
    { [kind |-> "chunk", chunk |-> TextChunk(Tok("step", 1), EmptyText)],
      AnswerLine, DoneLine }

DoneBodies == UNION { [1..n -> DoneBodyLines] : n \in 0..MaxDoneBody }

\* BodyReadDone going on to the next line.
BodyReadDone_Continue ==
    /\ driver = Qwen /\ pc = "reading" /\ nread < Len(body)
    /\ body[nread + 1].kind = "done"
    /\ nread' = nread + 1
    /\ UNCHANGED <<messages, params, sent, body>>
    /\ UNCHANGED <<driver, pc, toolBudget, usageBudget, reasoningContent,
                   answerContent, isAnswering, sink, ret, doCalls, closeCalls>>
    /\ HubUnchanged

\* reader.ReadString returns the line "[DONE]": break.
BodyReadDone ==
    /\ driver = Qwen /\ pc = "reading" /\ nread < Len(body)
    /\ body[nread + 1].kind = "done"
    /\ nread' = nread + 1
    /\ QwenFinish
    /\ UNCHANGED <<messages, params, sent, body>>
    /\ UNCHANGED <<driver, toolBudget, usageBudget, reasoningContent,
                   answerContent, isAnswering, doCalls>>
    /\ HubUnchanged

InitDone ==
    /\ StreamInit(Qwen)
    /\ OneUserMessage
    /\ body \in DoneBodies
    /\ HubInit

NextDone ==
    \/ QwenOpened
    \/ BodyReadLine
    \/ BodyReadDone
    \/ BodyReadEOF

SpecDone == InitDone /\ [][NextDone]_vars

(***************************************************************************)
(* The websocket hub.  A Go channel is its buffer and its closed flag; a   *)
(* send on a closed channel and a close of a closed channel panic, and a   *)
(* panic in any goroutine ends the process: fatal records it and nothing   *)
(* runs afterwards.                                                        *)
(***************************************************************************)
Running == fatal[1] = "none"

HubIdle == hubpc[1] = "idle"

StreamUnchanged == UNCHANGED <<streamVars, clientVars>>

\* ChanSend putting the value at the head of the buffer.
ChanSend_AtHead(buf, v) == <<v>> \o buf

\* A send that finds room: the value goes to the tail of the buffer.
ChanSend(buf, v) == Append(buf, v)

\* A receive takes the value at the head of the buffer.
ChanRecvValue(buf) == Head(buf)
ChanRecvRest(buf) == Tail(buf)

\* The connections ServeWS has created so far.
Served == {c \in Conns : cstate[c] # "new"}

\* The handleMessage goroutines started so far.
Started == {w \in Workers : hconn[w] # 0}

\* ServeWS: the upgrade succeeded, the Client was built and its send on
\* h.register meets the receive of Hub.Run's select; ServeWS then starts the
\* two pumps while Hub.Run is in its register case.
ServeWS(c) ==
    /\ Running /\ HubIdle
    /\ cstate[c] = "new"
    /\ c = Cardinality(Served) + 1
    /\ hubpc' = <<"register", c>>
    /\ cstate' = [cstate EXCEPT ![c] = "serving"]
    /\ rpc' = [rpc EXCEPT ![c] = "reading"]
    /\ wpumpc' = [wpumpc EXCEPT ![c] = "running"]
    /\ UNCHANGED <<clients, send, sendClosed, connClosed, wire, hconn, hpc, hnext,
                   hpending, fatal, mapWriters>>
    /\ StreamUnchanged

\* case client := <-h.register: Lock; h.clients[client] = true; Unlock.
HubRegister ==
    /\ Running
    /\ hubpc[1] = "register"
    /\ clients' = clients \cup {hubpc[2]}
    /\ mapWriters' = mapWriters \cup {"Hub.Run"}
    /\ hubpc' = <<"idle", 0>>
    /\ UNCHANGED <<cstate, send, sendClosed, connClosed, wire, rpc, wpumpc, hconn,
                   hpc, hnext, hpending, fatal>>
    /\ StreamUnchanged

\* UnregisterRemoves never finding the client in the map.
UnregisterRemoves_Never(c) == c \in clients /\ c \notin Conns

\* The body of the unregister case: what it does to the map, and whether it
\* closes client.send.
UnregisterRemoves(c) == c \in clients

\* case client := <-h.unregister: Lock; if _, ok := h.clients[client]; ok {
\* delete(h.clients, client); close(client.send) }; Unlock.
HubUnregister ==
    /\ Running
    /\ hubpc[1] = "unregister"
    /\ LET c == hubpc[2]
       IN  IF UnregisterRemoves(c)
           THEN /\ clients' = clients \ {c}
                /\ mapWriters' = mapWriters \cup {"Hub.Run"}
                /\ IF sendClosed[c]
                   THEN /\ fatal' = <<"close of closed channel", c>>
                        /\ UNCHANGED sendClosed
                   ELSE /\ sendClosed' = [sendClosed EXCEPT ![c] = TRUE]
                        /\ UNCHANGED fatal
           ELSE UNCHANGED <<clients, mapWriters, sendClosed, fatal>>
    /\ hubpc' = <<"idle", 0>>
    /\ UNCHANGED <<cstate, send, connClosed, wire, rpc, wpumpc, hconn, hpc, hnext,
                   hpending>>
    /\ StreamUnchanged

\* readPump: c.conn.ReadJSON returns a message and `go c.handleMessage(msg)`
\* starts a goroutine.  handleMessage returns at once, leaving no trace,
\* unless msg.Type is "user_message"; then it is request worker w.
ReadMessage(c) ==
    /\ Running
    /\ rpc[c] = "reading" /\ ~connClosed[c]
    /\ Cardinality(Started) < MaxRequests
    /\ LET w == Cardinality(Started) + 1
       IN  \E isUserMessage \in BOOLEAN :
             IF isUserMessage
             THEN /\ hconn' = [hconn EXCEPT ![w] = c]
                  /\ hpc' = [hpc EXCEPT ![w] = "streaming"]
             ELSE UNCHANGED <<hconn, hpc>>
    /\ UNCHANGED <<clients, hubpc, cstate, send, sendClosed, connClosed, wire, rpc,
                   wpumpc, hnext, hpending, fatal, mapWriters>>
    /\ StreamUnchanged

\* readPump: ReadJSON returns an error (the peer went away, the connection was
\* closed, or the frame is not JSON): break, and the deferred function blocks
\* on h.unregister <- c.
ReadFails(c) ==
    /\ Running
    /\ rpc[c] = "reading"
    /\ rpc' = [rpc EXCEPT ![c] = "unregistering"]
    /\ UNCHANGED <<clients, hubpc, cstate, send, sendClosed, connClosed, wire,
                   wpumpc, hconn, hpc, hnext, hpending, fatal, mapWriters>>
    /\ StreamUnchanged

\* The send h.unregister <- c meets the receive of Hub.Run's select.
SendUnregister(c) ==
    /\ Running /\ HubIdle
    /\ rpc[c] = "unregistering"
    /\ hubpc' = <<"unregister", c>>
    /\ rpc' = [rpc EXCEPT ![c] = "closing"]
    /\ UNCHANGED <<clients, cstate, send, sendClosed, connClosed, wire, wpumpc,
                   hconn, hpc, hnext, hpending, fatal, mapWriters>>
    /\ StreamUnchanged

\* readPump's deferred function goes on to c.conn.Close().
ReadPumpClose(c) ==
    /\ Running
    /\ rpc[c] = "closing"
    /\ connClosed' = [connClosed EXCEPT ![c] = TRUE]
    /\ rpc' = [rpc EXCEPT ![c] = "done"]
    /\ UNCHANGED <<clients, hubpc, cstate, send, sendClosed, wire, wpumpc, hconn,
                   hpc, hnext, hpending, fatal, mapWriters>>
    /\ StreamUnchanged

\* writePump: a value is received from c.send (buffered values are received
\* also after the channel was closed) and written with c.conn.WriteMessage.
\* The write fails on a closed connection and may fail on an open one; on
\* failure writePump returns and its deferred c.conn.Close() runs.
WriteNext(c) ==
    /\ Running
    /\ wpumpc[c] = "running"
    /\ send[c] # << >>
    /\ send' = [send EXCEPT ![c] = ChanRecvRest(send[c])]
    /\ \E written \in BOOLEAN :
         /\ written => ~connClosed[c]
         /\ IF written
            THEN /\ wire' = [wire EXCEPT ![c] = Append(@, ChanRecvValue(send[c]))]
                 /\ UNCHANGED <<wpumpc, connClosed>>
            ELSE /\ wpumpc' = [wpumpc EXCEPT ![c] = "done"]
                 /\ connClosed' = [connClosed EXCEPT ![c] = TRUE]
                 /\ UNCHANGED wire
    /\ UNCHANGED <<clients, hubpc, cstate, sendClosed, rpc, hconn, hpc, hnext,
                   hpending, fatal, mapWriters>>
    /\ StreamUnchanged

\* The frame of type websocket.CloseMessage; sid 0 is no session.
CloseFrame == [sid |-> 0, seq |-> 0]

\* writePump: the receive reports !ok (c.send closed and empty): a close
\* frame is written (its error is ignored), writePump returns and its
\* deferred c.conn.Close() runs.
WriteClose(c) ==
    /\ Running
    /\ wpumpc[c] = "running"
    /\ send[c] = << >> /\ sendClosed[c]
    /\ \E written \in BOOLEAN :
         /\ written => ~connClosed[c]
         /\ wire' = [wire EXCEPT ![c] = IF written THEN Append(@, CloseFrame) ELSE @]
    /\ wpumpc' = [wpumpc EXCEPT ![c] = "done"]
    /\ connClosed' = [connClosed EXCEPT ![c] = TRUE]
    /\ UNCHANGED <<clients, hubpc, cstate, send, sendClosed, rpc, hconn, hpc, hnext,
                   hpending, fatal, mapWriters>>
    /\ StreamUnchanged

(***************************************************************************)
(* handleMessage: the request worker.  It runs ChatStreamWithThinking with *)
(* a callback that calls sendMessage, so each callback of the driver is    *)
(* one sendMessage call.  sendMessage marshals Type, Content and Stage to  *)
(* bytes that nothing in the hub looks into: a message is modelled by its  *)
(* identity, the session sid that produced it and its place seq in that    *)
(* session.                                                                *)
(***************************************************************************)
\* The callbacks ChatStreamWithThinking can make after n earlier ones, by
\* isComplete: a final one ("complete" or "error", isComplete = true), or
\* "streaming" for one more chunk.
NextCallbacks(n) ==
    {TRUE} \cup (IF n < MaxChunks THEN {FALSE} ELSE {})

\* Where the worker goes when sendMessage returns: the driver returns after
\* its final callback and reads on after any other.
AfterSend(isComplete) == IF isComplete THEN "returned" ELSE "streaming"

\* The select of sendMessage finds room in c.send.
SelectSends(c) == Len(send[c]) < SendCap

\* The driver makes its next callback and sendMessage runs its select:
\* the send panics on a closed channel, succeeds when the buffer has room,
\* and otherwise the default case is taken.
SendMessage(w) ==
    /\ Running
    /\ hpc[w] = "streaming"
    /\ LET c == hconn[w]
       IN  \E isComplete \in NextCallbacks(hnext[w]) :
             LET msg == [sid |-> w, seq |-> hnext[w] + 1]
             IN  /\ hnext' = [hnext EXCEPT ![w] = @ + 1]
                 /\ hpending' = [hpending EXCEPT ![w] = isComplete]
                 /\ IF sendClosed[c]
                    THEN /\ fatal' = <<"send on closed channel", c>>
                         /\ UNCHANGED <<send, hpc>>
                    ELSE IF SelectSends(c)
                    THEN /\ send' = [send EXCEPT ![c] = ChanSend(@, msg)]
                         /\ hpc' = [hpc EXCEPT ![w] = AfterSend(isComplete)]
                         /\ UNCHANGED fatal
                    ELSE /\ hpc' = [hpc EXCEPT ![w] = "close"]
                         /\ UNCHANGED <<send, fatal>>
    /\ UNCHANGED <<clients, hubpc, cstate, sendClosed, connClosed, wire, rpc, wpumpc,
                   hconn, mapWriters>>
    /\ StreamUnchanged

\* default: close(c.send)
SendMessageClose(w) ==
    /\ Running
    /\ hpc[w] = "close"
    /\ LET c == hconn[w]
       IN  IF sendClosed[c]
           THEN /\ fatal' = <<"close of closed channel", c>>
                /\ UNCHANGED <<sendClosed, hpc>>
           ELSE /\ sendClosed' = [sendClosed EXCEPT ![c] = TRUE]
                /\ hpc' = [hpc EXCEPT ![w] = "delete"]
                /\ UNCHANGED fatal
    /\ UNCHANGED <<clients, hubpc, cstate, send, connClosed, wire, rpc, wpumpc,
                   hconn, hnext, hpending, mapWriters>>
    /\ StreamUnchanged

\* default: delete(c.hub.clients, c), without h.mutex.
SendMessageDelete(w) ==
    /\ Running
    /\ hpc[w] = "delete"
    /\ clients' = clients \ {hconn[w]}
    /\ mapWriters' = mapWriters \cup {"sendMessage"}
    /\ hpc' = [hpc EXCEPT ![w] = AfterSend(hpending[w])]
    /\ UNCHANGED <<hubpc, cstate, send, sendClosed, connClosed, wire, rpc, wpumpc,
                   hconn, hnext, hpending, fatal>>
    /\ StreamUnchanged

\* The tasks about to access h.clients: Hub.Run inside a case (task 0, it
\* holds h.mutex) and every worker at its delete (it holds nothing).
MapAccessors ==
    (IF HubIdle THEN {} ELSE {0}) \cup {w \in Workers : hpc[w] = "delete"}

\* Two accesses to the map overlap and at least one is a write outside the
\* mutex: a data race.  The Go runtime may detect it and end the process
\* ("fatal error: concurrent map writes"); otherwise the accesses take
\* effect in some order, as HubRegister, HubUnregister and SendMessageDelete
\* describe.
MapRace == Cardinality(MapAccessors) >= 2

MapRaceDetected ==
    /\ Running
    /\ MapRace
    /\ fatal' = <<"concurrent map writes", 0>>
    /\ UNCHANGED <<clients, hubpc, cstate, send, sendClosed, connClosed, wire, rpc,
                   wpumpc, hconn, hpc, hnext, hpending, mapWriters>>
    /\ StreamUnchanged

(***************************************************************************)
(* SpecHub: the hub with its pumps and request workers, under every        *)
(* interleaving.                                                           *)
(***************************************************************************)
InitHub ==
    /\ StreamInit("none")
    /\ OneUserMessage
    /\ body = << >>
    /\ HubInit

NextHub ==
    \/ \E c \in Conns : ServeWS(c)
    \/ HubRegister
    \/ HubUnregister
    \/ \E c \in Conns : ReadMessage(c)
    \/ \E c \in Conns : ReadFails(c)
    \/ \E c \in Conns : SendUnregister(c)
    \/ \E c \in Conns : ReadPumpClose(c)
    \/ \E c \in Conns : WriteNext(c)
    \/ \E c \in Conns : WriteClose(c)
    \/ \E w \in Workers : SendMessage(w)
    \/ \E w \in Workers : SendMessageClose(w)
    \/ \E w \in Workers : SendMessageDelete(w)
    \/ MapRaceDetected

SpecHub == InitHub /\ [][NextHub]_vars

\* Scheduling: Hub.Run is a goroutine that loops forever, so a case it has
\* entered is finished, and a sender blocked on h.unregister is received
\* once the loop is back at its select.
HubFairness ==
    /\ WF_vars(HubRegister)
    /\ WF_vars(HubUnregister)
    /\ \A c \in Conns : WF_vars(SendUnregister(c))

SpecHubFair == SpecHub /\ HubFairness

\* SpecDisconnect: the hub, the read pumps and the request workers in the
\* behaviours where no writePump takes a step (the peer accepts no frame), so
\* queues are not drained; with the scheduling of Hub.Run.
NextDisconnect ==
    \/ \E c \in Conns : ServeWS(c)
    \/ HubRegister
    \/ HubUnregister
    \/ \E c \in Conns : ReadMessage(c)
    \/ \E c \in Conns : ReadFails(c)
    \/ \E c \in Conns : SendUnregister(c)
    \/ \E c \in Conns : ReadPumpClose(c)
    \/ \E w \in Workers : SendMessage(w)
    \/ \E w \in Workers : SendMessageClose(w)
    \/ \E w \in Workers : SendMessageDelete(w)
    \/ MapRaceDetected

SpecDisconnect == InitHub /\ [][NextDisconnect]_vars /\ HubFairness

\* SpecDrain: the connections, their request workers and their write pumps
\* in the behaviours where no read fails, so a queue is released by overflow
\* only; with the scheduling of Hub.Run and of the write pumps.
NextDrain ==
    \/ \E c \in Conns : ServeWS(c)
    \/ HubRegister
    \/ \E c \in Conns : ReadMessage(c)
    \/ \E c \in Conns : WriteNext(c)
    \/ \E c \in Conns : WriteClose(c)
    \/ \E w \in Workers : SendMessage(w)
    \/ \E w \in Workers : SendMessageClose(w)
    \/ \E w \in Workers : SendMessageDelete(w)
    \/ MapRaceDetected

\* Scheduling: writePump is a goroutine of its own; a receive from c.send
\* that can complete does, and the write that follows returns.
DrainFairness ==
    \A c \in Conns : WF_vars(WriteNext(c)) /\ WF_vars(WriteClose(c))

SpecDrain == InitHub /\ [][NextDrain]_vars /\ HubFairness /\ DrainFairness

(***************************************************************************)
(* The broadcast case of Hub.Run.  Nothing in the program sends on         *)
(* h.broadcast; the sender is any code of package main holding the hub.    *)
(* In the case, hubpc is <<"broadcast", 0, todo>> between two iterations   *)
(* of `for client := range h.clients` and <<"release", client, todo>>      *)
(* inside the default case; todo is the part of the map the range has not  *)
(* visited.  The case holds h.mutex.RLock.                                 *)
(***************************************************************************)
\* The bytes sent on h.broadcast: a message of no session.
BroadcastMessage == [sid |-> 0, seq |-> 1]

\* The entries the range has yet to produce: an entry deleted before it is
\* reached is not produced.
ToVisit == hubpc[3] \cap clients

\* case message := <-h.broadcast: h.mutex.RLock()
HubBroadcast ==
    /\ Running /\ HubIdle
    /\ hubpc' = <<"broadcast", 0, clients>>
    /\ UNCHANGED <<clients, cstate, send, sendClosed, connClosed, wire, rpc, wpumpc,
                   hconn, hpc, hnext, hpending, fatal, mapWriters>>
    /\ StreamUnchanged

\* One iteration of the range, for client c: select { case client.send <-
\* message: default: delete(h.clients, client) ... }.  The send panics on a
\* closed channel, succeeds when the buffer has room, and otherwise the
\* default case is taken.
HubBroadcastTo(c) ==
    /\ Running
    /\ hubpc[1] = "broadcast"
    /\ c \in ToVisit
    /\ IF sendClosed[c]
       THEN /\ fatal' = <<"send on closed channel", c>>
            /\ UNCHANGED <<send, clients, mapWriters, hubpc>>
       ELSE IF SelectSends(c)
       THEN /\ send' = [send EXCEPT ![c] = ChanSend(@, BroadcastMessage)]
            /\ hubpc' = <<"broadcast", 0, hubpc[3] \ {c}>>
            /\ UNCHANGED <<clients, mapWriters, fatal>>
       ELSE /\ clients' = clients \ {c}
            /\ mapWriters' = mapWriters \cup {"Hub.Run"}
            /\ hubpc' = <<"release", c, hubpc[3] \ {c}>>
            /\ UNCHANGED <<send, fatal>>
    /\ UNCHANGED <<cstate, sendClosed, connClosed, wire, rpc, wpumpc, hconn, hpc,
                   hnext, hpending>>
    /\ StreamUnchanged

\* default: ... close(client.send)
HubBroadcastClose ==
    /\ Running
    /\ hubpc[1] = "release"
    /\ LET c == hubpc[2]
       IN  IF sendClosed[c]
           THEN /\ fatal' = <<"close of closed channel", c>>
                /\ UNCHANGED <<sendClosed, hubpc>>
           ELSE /\ sendClosed' = [sendClosed EXCEPT ![c] = TRUE]
                /\ hubpc' = <<"broadcast", 0, hubpc[3]>>
                /\ UNCHANGED fatal
    /\ UNCHANGED <<clients, cstate, send, connClosed, wire, rpc, wpumpc, hconn, hpc,
                   hnext, hpending, mapWriters>>
    /\ StreamUnchanged

\* The range is over: h.mutex.RUnlock(), and Hub.Run is back at its select.
HubBroadcastDone ==
    /\ Running
    /\ hubpc[1] = "broadcast"
    /\ ToVisit = {}
    /\ hubpc' = <<"idle", 0>>
    /\ UNCHANGED <<clients, cstate, send, sendClosed, connClosed, wire, rpc, wpumpc,
                   hconn, hpc, hnext, hpending, fatal, mapWriters>>
    /\ StreamUnchanged

\* SpecBroadcast: the hub with its broadcast case and the request workers,
\* in the behaviours where no writePump takes a step and no read fails.
NextBroadcast ==
    \/ \E c \in Conns : ServeWS(c)
    \/ HubRegister
    \/ \E c \in Conns : ReadMessage(c)
    \/ \E w \in Workers : SendMessage(w)
    \/ \E w \in Workers : SendMessageClose(w)
    \/ \E w \in Workers : SendMessageDelete(w)
    \/ MapRaceDetected
    \/ HubBroadcast
    \/ \E c \in Conns : HubBroadcastTo(c)
    \/ HubBroadcastClose
    \/ HubBroadcastDone

SpecBroadcast == InitHub /\ [][NextBroadcast]_vars

(***************************************************************************)
(* Properties of a session (SpecStream).                                   *)
(***************************************************************************)
\* The places of the callbacks of a stage in the sink.
At(stage) == {i \in 1..Len(sink) : sink[i].stage = stage}

\* The places of the callbacks made with isComplete = true.
Terminals == {i \in 1..Len(sink) : sink[i].isComplete}

\* The driver whose loop is the stage decoder.
Decoding == driver = Qwen

\* C1: every session, however it ends, delivers exactly one terminal event
\* ("complete" or "error", isComplete = true) to the sink, and no event
\* follows it.
C1_ExactlyOneTerminalEvent ==
    /\ \A i \in Terminals : i = Len(sink) /\ sink[i].stage \in {"complete", "error"}
    /\ pc = "returned" => Cardinality(Terminals) = 1

\* C2: a session of the stage decoder produces at most one
\* "thinking_complete" event, and if it produces a "streaming" event the
\* "thinking_complete" event comes before the first of them.
C2_OneReasoningCompleteBeforeAnswer ==
    Decoding =>
        /\ Cardinality(At("thinking_complete")) <= 1
        /\ \A j \in At("streaming") : \E i \in At("thinking_complete") : i < j

\* A finished decoder session with reasoning, then two answer chunks.
C2_Witness ==
    /\ Decoding /\ pc = "returned" /\ ret = "nil"
    /\ Cardinality(At("streaming")) >= 2
    /\ Cardinality(At("thinking")) >= 1
    /\ Cardinality(At("thinking_complete")) = 1

\* C3: "thinking_complete" comes strictly after the last "thinking" event:
\* no "thinking" event is emitted once the session has entered the answering
\* phase.
C3_NoReasoningAfterReasoningComplete ==
    Decoding =>
        \A i \in At("thinking_complete") : \A j \in At("thinking") : j < i

(***************************************************************************)
(* Properties of the hub (SpecHub).                                        *)
(***************************************************************************)
\* The request workers of connection c.
WorkersOf(c) == {w \in Workers : hconn[w] = c}

RECURSIVE SumCalls(_)
SumCalls(ws) ==
    IF ws = {} THEN 0
    ELSE LET w == CHOOSE x \in ws : TRUE IN hnext[w] + SumCalls(ws \ {w})

\* The sendMessage calls made so far on connection c.
Calls(c) == SumCalls(WorkersOf(c))

\* writePump of c runs and has received nothing from c.send yet.
Undrained(c) == wpumpc[c] = "running" /\ wire[c] = << >>

\* A worker of c is inside sendMessage's default case.
InDefault(c) == \E w \in WorkersOf(c) : hpc[w] \in {"close", "delete"}

\* C4: on a connection of capacity N that is never drained (and whose
\* transport stays connected) the first N sendMessage calls succeed, the
\* (N+1)-th removes the connection from the hub's map and closes its queue,
\* and every later call changes nothing and raises no failure.
C4_OverflowReleasesThenNoOp ==
    \A c \in Conns :
        (Undrained(c) /\ rpc[c] = "reading") =>
            /\ Calls(c) <= SendCap =>
                   Len(send[c]) = Calls(c) /\ ~sendClosed[c]
            /\ (Calls(c) > SendCap /\ ~InDefault(c) /\ HubIdle) =>
                   c \notin clients /\ sendClosed[c] /\ Len(send[c]) = SendCap
            /\ fatal[2] # c

\* Hub.Run has finished the unregister case for c.
Unregistered(c) ==
    rpc[c] \in {"closing", "done"} /\ hubpc # <<"unregister", c>>

\* The messages of sessions in a sequence of frames (the close frame is none).
SessionFrames(q) == SelectSeq(q, LAMBDA m : m.sid # 0)

\* C5: once the hub has unregistered a connection after a disconnect, no
\* further event of a session in flight on it reaches its queue or its
\* transport, and the session's driver runs on to its end.
C5_NoDeliveryAfterUnregister ==
    [][\A c \in Conns :
         Unregistered(c) =>
             /\ Len(send'[c]) <= Len(send[c])
             /\ SessionFrames(wire'[c]) = SessionFrames(wire[c])
             /\ fatal'[2] # c]_vars

\* C6: no reachable state has performed a process-fatal operation.
C6_NoFatalOperation == fatal[1] = "none"

\* The seq numbers of session w in a sequence of messages, in order.
RECURSIVE SeqsOf(_, _)
SeqsOf(q, w) ==
    IF q = << >> THEN << >>
    ELSE (IF Head(q).sid = w THEN <<Head(q).seq>> ELSE << >>) \o SeqsOf(Tail(q), w)

Increasing(ns) == \A i, j \in 1..Len(ns) : i < j => ns[i] < ns[j]

\* C7: the events of a session appear on its connection's queue and then on
\* the transport in the order produced, none twice, none out of order, also
\* when another session's events lie between them; what reached the
\* transport is a prefix of what the session produced.
C7_SessionOrderPreserved ==
    \A w \in Workers :
        LET c == hconn[w]
        IN  c # 0 =>
              LET written == SeqsOf(wire[c], w)
                  queued == SeqsOf(send[c], w)
              IN  /\ \A i \in 1..Len(written) : written[i] = i
                  /\ Increasing(written \o queued)
                  /\ \A i \in 1..Len(queued) : queued[i] <= hnext[w]
                  /\ \A d \in Conns \ {c} :
                         SeqsOf(wire[d], w) = << >> /\ SeqsOf(send[d], w) = << >>

\* Two sessions of one connection, interleaved on the transport.
C7_Witness ==
    \E c \in Conns :
        /\ Len(wire[c]) >= 4
        /\ wire[c][1].sid = 1 /\ wire[c][2].sid = 2
        /\ wire[c][3].sid = 1 /\ wire[c][4].sid = 2

\* C8: the unregister case removes a tracked connection and closes its queue
\* once, without error; for a connection that is not tracked (unregistered
\* before, or removed by overflow) it raises no error and changes neither
\* the map nor any queue.
C8_UnregisterIdempotent ==
    [][(hubpc[1] = "unregister" /\ hubpc'[1] = "idle") =>
          LET c == hubpc[2]
          IN  IF c \in clients
              THEN /\ c \notin clients'
                   /\ ~sendClosed[c] /\ sendClosed'[c]
                   /\ fatal' = fatal
              ELSE UNCHANGED <<clients, send, sendClosed, fatal>>]_vars

\* C9: only Hub.Run writes the map h.clients, and no two accesses to the map
\* are concurrent.
C9_OnlyHubMutatesMap ==
    /\ mapWriters \subseteq {"Hub.Run"}
    /\ ~MapRace

\* C10: sendMessage never waits for space: on a queue with room the message
\* is appended at the tail and the map is unchanged; on a full queue the call
\* takes its default case at once and nothing is reported to the driver; and
\* once an overflow has released the queue, a driver's further callbacks, up
\* to its terminal one, run without a failure.
C10_EnqueueNeverBlocks ==
    [][\A w \in Workers :
         LET c == hconn[w]
         IN  (hpc[w] = "streaming" /\ hnext'[w] = hnext[w] + 1) =>
               /\ (~sendClosed[c] /\ Len(send[c]) < SendCap) =>
                      /\ send'[c] = Append(send[c], [sid |-> w, seq |-> hnext[w] + 1])
                      /\ clients' = clients
               /\ (~sendClosed[c] /\ Len(send[c]) = SendCap) =>
                      /\ hpc'[w] = "close"
                      /\ fatal' = fatal
               /\ (sendClosed[c] /\ rpc[c] = "reading") => fatal' = fatal]_vars

\* Hub.Run has finished the register case for c.
Registered(c) == cstate[c] = "serving" /\ hubpc # <<"register", c>>

\* C11: a connection only moves forward: once it has been removed from
\* h.clients it is never in the map again, and once its send channel has been
\* closed the channel is not reopened, nothing is sent on it and it is not
\* closed again.
C11_LivenessOnlyForward ==
    [][\A c \in Conns :
         /\ (Registered(c) /\ c \notin clients) => c \notin clients'
         /\ sendClosed[c] =>
                /\ sendClosed'[c]
                /\ Len(send'[c]) <= Len(send[c])
                /\ fatal'[2] # c]_vars

\* C12: when readPump's read has failed on a connection, then, as long as
\* the process (and so the hub loop) keeps running, the connection is
\* eventually out of h.clients with its send channel closed.
C12_DisconnectEventuallyReleases ==
    \A c \in Conns :
        (rpc[c] = "unregistering") ~>
            (~Running \/ (c \notin clients /\ sendClosed[c]))

\* A disconnected connection that Hub.Run has removed and closed, with the
\* process still running.
C12_Witness ==
    \E c \in Conns :
        /\ Running /\ Unregistered(c) /\ Registered(c)
        /\ c \notin clients /\ sendClosed[c]
        /\ "sendMessage" \notin mapWriters

(***************************************************************************)
(* Properties of a session on a given body (SpecScenario).                 *)
(***************************************************************************)
Event(stage, content, isComplete) ==
    [stage |-> stage, content |-> content, isComplete |-> isComplete]

ChunkLine(r, c) == [kind |-> "chunk", chunk |-> TextChunk(r, c)]

\* The lines of the body read so far.
Consumed == SubSeq(body, 1, nread)

\* The "thinking" and "streaming" events of a sink, in order.
TextEvents(s) == SelectSeq(s, LAMBDA e : e.stage \in {"thinking", "streaming"})

\* One event per reasoning text and per answer text carried by the chunks of
\* a sequence of lines, in the order of the lines.
RECURSIVE ChunkTexts(_)
ChunkTexts(ls) ==
    IF ls = << >> THEN << >>
    ELSE LET l == Head(ls)
         IN  (IF l.kind = "chunk" /\ l.chunk.ReasoningContent # EmptyText
              THEN << Event("thinking", l.chunk.ReasoningContent, FALSE) >>
              ELSE << >>)
             \o (IF l.kind = "chunk" /\ l.chunk.Content # EmptyText
                 THEN << Event("streaming", l.chunk.Content, FALSE) >>
                 ELSE << >>)
             \o ChunkTexts(Tail(ls))

\* reasoning "step1", reasoning "step2", answer "ans1", answer "ans2", end
Scenario13 ==
    << ChunkLine(<<"step1">>, EmptyText), ChunkLine(<<"step2">>, EmptyText),
       ChunkLine(EmptyText, <<"ans1">>), ChunkLine(EmptyText, <<"ans2">>) >>

\* C13: the body reasoning "step1", reasoning "step2", answer "ans1", answer
\* "ans2", end gives exactly thinking("step1"), thinking("step2"),
\* thinking_complete(""), streaming("ans1"), streaming("ans2"),
\* complete("ans1ans2"); and for every body each reasoning text and each
\* answer text of a chunk gives one event carrying exactly that text, in
\* chunk order.
C13_ScenarioReasoningThenAnswer ==
    /\ (body = Scenario13 /\ pc = "returned") =>
           sink = << Event("thinking", <<"step1">>, FALSE),
                     Event("thinking", <<"step2">>, FALSE),
                     Event("thinking_complete", EmptyText, FALSE),
                     Event("streaming", <<"ans1">>, FALSE),
                     Event("streaming", <<"ans2">>, FALSE),
                     Event("complete", <<"ans1", "ans2">>, TRUE) >>
    /\ TextEvents(sink) = ChunkTexts(Consumed)

\* The session on Scenario13 has returned.
C13_Witness == body = Scenario13 /\ pc = "returned" /\ Len(sink) = 6

\* answer "hi", end
Scenario14 == << ChunkLine(EmptyText, <<"hi">>) >>

\* C14: the body answer "hi", end gives exactly thinking_complete(""),
\* streaming("hi"), complete("hi"); and every session that has emitted answer
\* text and no reasoning text has emitted exactly one "thinking_complete",
\* with empty text, immediately before its first "streaming" event.
C14_AnswerOnlyStillMarksReasoningComplete ==
    /\ (body = Scenario14 /\ pc = "returned") =>
           sink = << Event("thinking_complete", EmptyText, FALSE),
                     Event("streaming", <<"hi">>, FALSE),
                     Event("complete", <<"hi">>, TRUE) >>
    /\ (At("thinking") = {} /\ At("streaming") # {}) =>
           /\ Cardinality(At("thinking_complete")) = 1
           /\ \A j \in At("streaming") :
                  (\A k \in At("streaming") : j <= k) =>
                      /\ j > 1
                      /\ sink[j - 1] = Event("thinking_complete", EmptyText, FALSE)

\* The session on Scenario14 has returned.
C14_Witness == body = Scenario14 /\ pc = "returned" /\ Len(sink) = 3

\* The lines of a body that parse.
WellFormed(ls) == SelectSeq(ls, LAMBDA l : l.kind # "malformed")

\* The decoder state at the start of the read loop.
FreshDecoder ==
    [reasoningContent |-> EmptyText, answerContent |-> EmptyText,
     isAnswering |-> FALSE, sink |-> << >>]

\* The decoder state after the handlers have run on each of a sequence of
\* lines that parse.
RECURSIVE DecodeAll(_, _)
DecodeAll(st, ls) ==
    IF ls = << >> THEN st
    ELSE DecodeAll(ProcessChunk(st, Head(ls).chunk), Tail(ls))

\* C18: a line that fails to parse produces no event, leaves reasoningContent,
\* answerContent and isAnswering unchanged and does not end the session: at
\* every point the locals and the events are those of the same body with its
\* malformed lines removed, and the session ends only at the end of the body.
C18_MalformedChunkSkipped ==
    pc \in {"reading", "returned"} =>
        LET st == DecodeAll(FreshDecoder, WellFormed(Consumed))
        IN  /\ reasoningContent = st.reasoningContent
            /\ answerContent = st.answerContent
            /\ isAnswering = st.isAnswering
            /\ sink = IF pc = "reading" THEN st.sink
                      ELSE Callback(st.sink, "complete", st.answerContent, TRUE)
            /\ pc = "returned" => nread = Len(body)

\* A finished session whose body has a malformed line between a reasoning
\* chunk and an answer chunk.
C18_Witness ==
    /\ pc = "returned" /\ Len(body) >= 3
    /\ body[1].kind = "chunk" /\ body[1].chunk.ReasoningContent # EmptyText
    /\ body[2].kind = "malformed"
    /\ body[3].kind = "chunk" /\ body[3].chunk.Content # EmptyText
    /\ At("thinking") # {} /\ At("streaming") # {}

(***************************************************************************)
(* Properties of the end of a session (SpecStream).                        *)
(***************************************************************************)
\* The concatenation of the contents of the "streaming" events of a sink.
RECURSIVE AnswerText(_)
AnswerText(s) ==
    IF s = << >> THEN EmptyText
    ELSE (IF Head(s).stage = "streaming" THEN Head(s).content ELSE EmptyText)
         \o AnswerText(Tail(s))

\* The tokens of a text.
Tokens(t) == {t[i] : i \in 1..Len(t)}

\* The step is a graceful end of the stream: io.EOF, or the line "[DONE]".
GracefulEnd == QwenReadEOF \/ QwenReadDone \/ ClientRecvEOF

\* C15: at a graceful end of the stream the driver emits one "complete" event
\* with isComplete = true, the only one of the session, whose text is the
\* concatenation, in order, of the texts of the session's "streaming" events
\* (empty when there are none) and holds no reasoning text.
C15_CompleteCarriesWholeAnswer ==
    [][GracefulEnd =>
          /\ At("complete") = {}
          /\ sink' = Append(sink, Event("complete", AnswerText(sink), TRUE))
          /\ \A i \in At("thinking") :
                 Tokens(sink[i].content) \cap Tokens(sink'[Len(sink')].content) = {}]_vars

\* A decoder session with reasoning and two answer chunks, ended gracefully.
C15_Witness ==
    /\ pc = "returned" /\ sink # << >>
    /\ sink[Len(sink)].stage = "complete" /\ Len(sink[Len(sink)].content) >= 2
    /\ At("thinking") # {}

\* C16: when a read of the upstream stream fails with an error other than
\* io.EOF, the driver makes exactly one callback, "error" with isComplete =
\* true, makes no "complete" callback, reads no further line and returns.
C16_ReadFailureDeliversError ==
    [][(QwenReadError \/ ClientRecvError) =>
          /\ Len(sink') = Len(sink) + 1
          /\ SubSeq(sink', 1, Len(sink)) = sink
          /\ sink'[Len(sink')].stage = "error" /\ sink'[Len(sink')].isComplete
          /\ At("complete") = {}
          /\ nread' = nread /\ pc' = "returned"]_vars

\* C17: when the upstream call cannot be opened (client.Do fails, or the
\* status is not 200) the driver makes one "error" callback and returns: the
\* sink holds that event only, no line was read, one call was issued.
C17_OpenFailureDeliversError ==
    [][(QwenDoFails \/ QwenRejected \/ ClientOpenFails) =>
          /\ Len(sink') = 1 /\ sink'[1].stage = "error" /\ sink'[1].isComplete
          /\ nread' = 0 /\ doCalls' = 1 /\ pc' = "returned"]_vars

\* The JSON object of a request carries the reasoning-mode flag.
FlagSent(json) ==
    "enable_thinking" \in DOMAIN json /\ json.enable_thinking

\* C19: a call issues exactly one upstream request, whose body carries the
\* whole message list and the reasoning-mode flag: enabled exactly when the
\* last message is a user message for which processThinkingPrompt returns
\* true.
C19_RequestCarriesHistoryAndFlag ==
    pc # "start" =>
        /\ doCalls = 1 /\ Len(sent) = 1
        /\ sent[1].messages = messages
        /\ FlagSent(sent[1]) = ThinkingEnabled(messages, params)

\* The step fails to open the upstream call.
OpenFails == QwenDoFails \/ ClientOpenFails

\* C20: the response body (the stream) is closed exactly once on every return
\* after a successful open: graceful end, "[DONE]", read failure, rejected
\* status; it is not closed before the return, and never when the open
\* failed.
C20_UpstreamClosedExactlyOnce ==
    [][/\ closeCalls = 0 \/ pc = "returned"
       /\ IF pc' = "returned" /\ pc # "returned"
          THEN closeCalls' = (IF OpenFails THEN 0 ELSE 1)
          ELSE closeCalls' = closeCalls]_vars

\* A session of the stage decoder ended by a read failure after two lines,
\* with the body closed.
C20_Witness ==
    /\ Decoding /\ pc = "returned" /\ ret = "error"
    /\ nread >= 2 /\ closeCalls = 1

(***************************************************************************)
(* Properties of tool calls (SpecTools).                                   *)
(***************************************************************************)
\* The "tool_call" events of a sink, in order.
ToolEvents(s) == SelectSeq(s, LAMBDA e : e.stage = "tool_call")

\* The tool call descriptors of the lines ls, in order.
RECURSIVE Descriptors(_)
Descriptors(ls) ==
    IF ls = << >> THEN << >> ELSE Head(ls).chunk.ToolCalls \o Descriptors(Tail(ls))

\* The answer text of the lines ls.
RECURSIVE Contents(_)
Contents(ls) ==
    IF ls = << >> THEN EmptyText ELSE Head(ls).chunk.Content \o Contents(Tail(ls))

\* The text t holds the text u.
Holds(t, u) == \E i \in 0..(Len(t) - Len(u)) : SubSeq(t, i + 1, i + Len(u)) = u

\* C21: the chunks consumed so far, carrying k tool call descriptors in all,
\* have produced exactly k "tool_call" events, in descriptor order, each with
\* isComplete = false and a content that holds the descriptor's name, and its
\* arguments when they are not empty; the answer text is the concatenation
\* of the chunks' contents and isAnswering is set exactly when one of them
\* was not empty, whatever tool calls the chunks carried.
C21_OneToolCallEventPerDescriptor ==
    LET events == ToolEvents(sink)
        descriptors == Descriptors(Consumed)
    IN  /\ Len(events) = Len(descriptors)
        /\ \A i \in 1..Len(events) :
               /\ ~events[i].isComplete
               /\ Holds(events[i].content, descriptors[i].Name)
               /\ descriptors[i].Arguments # EmptyText =>
                      Holds(events[i].content, descriptors[i].Arguments)
        /\ answerContent = Contents(Consumed)
        /\ isAnswering = (Contents(Consumed) # EmptyText)

\* A chunk with answer text and two descriptors, the second with arguments,
\* has been processed.
C21_Witness ==
    /\ nread = 1
    /\ body[1].chunk.Content = Tok("ans", 1)
    /\ Len(body[1].chunk.ToolCalls) = 2
    /\ body[1].chunk.ToolCalls[2].Arguments # EmptyText
    /\ Len(ToolEvents(sink)) = 2
    /\ answerContent = Tok("ans", 1)

(***************************************************************************)
(* Properties of the client's parameters (SpecParams).                     *)
(***************************************************************************)
\* What ChatOmni reads of a configuration.
OmniView(cfg) == [i \in 1..Len(OmniFields) |-> cfg[OmniFields[i]]]

\* C22: a ChatOmni call that has read the parameters, while SetParams or
\* SetThinkingMode ran or not, has read the fields of one complete
\* configuration the client was given: the old one or a new one, never
\* fields of both.
C22_ParamsReplacedAtomically ==
    Len(observed) = Len(OmniFields) =>
        \E i \in 1..Len(configs) : observed = OmniView(configs[i])

(***************************************************************************)
(* Properties of the directive parser (SpecParse).                         *)
(***************************************************************************)
\* The places of a text that are not blank.
NonBlank(t) == {i \in 1..Len(t) : t[i] # " "}

\* The text without its leading and trailing whitespace.
Core(t) ==
    IF NonBlank(t) = {}
    THEN EmptyText
    ELSE SubSeq(t, CHOOSE i \in NonBlank(t) : \A j \in NonBlank(t) : i <= j,
                   CHOOSE i \in NonBlank(t) : \A j \in NonBlank(t) : j <= i)

\* The trimmed text ends with the token.
EndsWith(t, token) == Core(t) # EmptyText /\ Core(t)[Len(Core(t))] = token

\* The trimmed text without its last token and the whitespace before it.
Stripped(t) == Core(SubSeq(Core(t), 1, Len(Core(t)) - 1))

Directives == {"/think", "/no_think"}

\* The text has no trailing directive token.
Clean(t) == \A d \in Directives : ~EndsWith(t, d)

\* How many directive tokens the text holds.
DirectiveCount(t) == Cardinality({i \in 1..Len(t) : t[i] \in Directives})

\* C23: a processThinkingPrompt call on a prompt whose trimmed text ends with
\* "/no_think" returns the trimmed text without that token and the
\* whitespace before it, and the mode false, whatever q.params holds.
C23_DisableTokenStrippedModeFalse ==
    [][CallProcessThinkingPrompt /\ EndsWith(prompt, "/no_think") =>
           parsed' = <<Stripped(prompt), FALSE>>]_vars

\* "Hello world /no_think" has given ("Hello world", false) on a client whose
\* default is true.
C23_Witness ==
    /\ prompt = <<"Hello", " ", "world", " ", "/no_think">>
    /\ parsed = << <<"Hello", " ", "world">>, FALSE >>
    /\ params.EnableThinking

\* C24: a processThinkingPrompt call on a prompt whose trimmed text ends with
\* "/think" returns the trimmed text without that token and the whitespace
\* before it, and the mode true, whatever q.params holds.
C24_EnableTokenStrippedModeTrue ==
    [][CallProcessThinkingPrompt /\ EndsWith(prompt, "/think") =>
           parsed' = <<Stripped(prompt), TRUE>>]_vars

\* "Hello world/think" has given ("Hello world", true) on a client whose
\* default is false.
C24_Witness ==
    /\ prompt = <<"Hello", " ", "world", "/think">>
    /\ parsed = << <<"Hello", " ", "world">>, TRUE >>
    /\ ~params.EnableThinking

\* C25, as stated: a processThinkingPrompt call on a prompt with no trailing
\* directive token returns the prompt itself, token for token, and the
\* current default mode.
C25_CleanTextReturnedUnchanged ==
    [][CallProcessThinkingPrompt /\ Clean(prompt) =>
           parsed' = <<prompt, params.EnableThinking>>]_vars

\* C25, amended: a processThinkingPrompt call on a prompt with no trailing
\* directive token returns the prompt without its leading and trailing
\* whitespace, otherwise unchanged, and the current default mode.
C25_CleanTextReturnedTrimmed ==
    [][CallProcessThinkingPrompt /\ Clean(prompt) =>
           parsed' = <<Core(prompt), params.EnableThinking>>]_vars

\* " Hello world " has given ("Hello world", false) on a client whose default
\* is false.
C25_Witness ==
    /\ prompt = <<" ", "Hello", " ", "world", " ">>
    /\ parsed = << <<"Hello", " ", "world">>, FALSE >>
    /\ ~params.EnableThinking

\* C26: a processThinkingPrompt call treats a token as a directive only at
\* the very end of the trimmed text.  If the trimmed text does not end with
\* a token, every token in it stays in the returned text and the mode is the
\* default; if it does, the returned text is the part before that last
\* token, holding every other token, and that last token alone decides the
\* mode.
C26_OnlyTheLastTokenIsADirective ==
    [][CallProcessThinkingPrompt =>
           LET core == Core(prompt)
               kept == parsed'[1]
           IN  IF Clean(prompt)
               THEN /\ DirectiveCount(kept) = DirectiveCount(core)
                    /\ parsed'[2] = params.EnableThinking
               ELSE /\ Len(kept) < Len(core)
                    /\ kept = SubSeq(core, 1, Len(kept))
                    /\ DirectiveCount(kept) = DirectiveCount(core) - 1
                    /\ parsed'[2] = (core[Len(core)] = "/think")]_vars

\* "/no_think Hello /think" has given ("/no_think Hello", true).
C26_Witness ==
    /\ prompt = <<"/no_think", " ", "Hello", " ", "/think">>
    /\ parsed = << <<"/no_think", " ", "Hello">>, TRUE >>

\* The argument of the last SetThinkingMode call; true on a new client.
LastMode == IF modeCalls = << >> THEN TRUE ELSE modeCalls[Len(modeCalls)]

\* C27: q.params.EnableThinking is true on a new client and, after
\* SetThinkingMode calls, the argument of the last one; a
\* processThinkingPrompt call returns that value for a prompt without a
\* trailing directive token and the token's value for a prompt with one.
C27_DefaultIsLastSetThinkingMode ==
    /\ [](params.EnableThinking = LastMode)
    /\ [][CallProcessThinkingPrompt =>
              parsed'[2] = IF Clean(prompt) THEN LastMode ELSE EndsWith(prompt, "/think")]_vars

\* After SetThinkingMode(true) and SetThinkingMode(false), "Hello" has given
\* the mode false.
C27_Witness ==
    /\ modeCalls = <<TRUE, FALSE>>
    /\ prompt = <<"Hello">>
    /\ parsed = << <<"Hello">>, FALSE >>

(***************************************************************************)
(* Properties of the overflow path and of the request (SpecHub,            *)
(* SpecRequest).                                                           *)
(***************************************************************************)
\* c.send was closed by sendMessage's default case: it is closed while
\* readPump is still reading, so no unregister of c has reached Hub.Run.
ReleasedByOverflow(c) == sendClosed[c] /\ rpc[c] = "reading"

\* C28: once sendMessage has found the queue of a connection full and closed
\* it, no event is written to that connection's transport any more: the
\* events that were in the queue are lost.
C28_QueuedEventsLostOnOverflow ==
    [][\A c \in Conns :
           ReleasedByOverflow(c) =>
               SessionFrames(wire'[c]) = SessionFrames(wire[c])]_vars

\* The last message of the call is a user message ending with a directive.
LastUserDirective ==
    /\ Len(messages) > 0
    /\ messages[Len(messages)].Role = "user"
    /\ ~Clean(messages[Len(messages)].Content)

\* C29: when the last user message ends with a directive token, the request
\* handed to the HTTP client carries, for that message, the cleaned text the
\* parser returned.
C29_RequestCarriesCleanedText ==
    sent # << >> /\ LastUserDirective =>
        sent[1].messages[Len(messages)].Content =
            processThinkingPrompt(params, messages[Len(messages)].Content)[1]

\* C30: every connection in h.clients has a send channel that is not
\* closed; a closed send channel belongs to a connection not in the map.
C30_MembersHaveOpenQueues == \A c \in clients : ~sendClosed[c]

(***************************************************************************)
(* Further properties of the hub and of a session (SpecHub, SpecStream).   *)
(***************************************************************************)
\* C31: the send channel of a connection is closed at most once, whoever
\* closes it: Hub.Run's unregister case or the default case of sendMessage
\* in one or more request workers.
C31_QueueReleasedAtMostOnce == fatal[1] # "close of closed channel"

\* C32: a session of ChatWithThinkingStream has made a "thinking_complete"
\* callback exactly when it has made a "streaming" callback; a session that
\* ended without error and without a "streaming" callback ended with
\* callback("complete", "", true).
C32_ReasoningCompleteIffAnswer ==
    Decoding =>
        /\ (At("thinking_complete") # {}) <=> (At("streaming") # {})
        /\ pc = "returned" /\ ret = "nil" /\ At("streaming") = {} =>
               sink[Len(sink)] = Event("complete", EmptyText, TRUE)

\* A session with reasoning text only has ended without error.
C32_Witness ==
    /\ Decoding /\ pc = "returned" /\ ret = "nil"
    /\ At("thinking") # {}
    /\ At("streaming") = {} /\ At("thinking_complete") = {}
    /\ sink[Len(sink)] = Event("complete", EmptyText, TRUE)

(***************************************************************************)
(* Properties of one chunk and of the end marker (SpecChunks, SpecDone).   *)
(***************************************************************************)
\* The stages of the events of a sink, in order.
Stages(s) == [i \in 1..Len(s) |-> s[i].stage]

\* The stages of the events a chunk gives rise to, in the order Reasoning,
\* ReasoningComplete and Answer, ToolCall, Usage.
ExpectedStages(chunk, wasAnswering) ==
    (IF chunk.hasChoice /\ chunk.ReasoningContent # EmptyText
     THEN <<"thinking">> ELSE << >>)
    \o (IF chunk.hasChoice /\ chunk.Content # EmptyText
        THEN (IF wasAnswering THEN << >> ELSE <<"thinking_complete">>) \o <<"streaming">>
        ELSE << >>)
    \o (IF chunk.hasChoice
        THEN [i \in 1..Len(chunk.ToolCalls) |-> "tool_call"] ELSE << >>)
    \o (IF chunk.hasUsage THEN <<"usage">> ELSE << >>)

\* The events made before the last line of the body was read: the two of
\* AnswerLine when the body starts with it.
EarlierEvents == IF Len(body) = 2 THEN 2 ELSE 0

\* C33: when the chunk of the last line has been processed, the events it
\* gave rise to are, in this order: "thinking" if it has reasoning text;
\* "thinking_complete" (if the session was not answering yet) and "streaming"
\* if it has answer text; one "tool_call" per descriptor; one "usage" if it
\* has usage counters, also when it has no choices.  A chunk with neither
\* text gives neither "thinking" nor "streaming".
C33_EventOrderWithinChunk ==
    nread = Len(body) /\ pc = "reading" =>
        Stages(SubSeq(sink, EarlierEvents + 1, Len(sink))) =
            ExpectedStages(body[Len(body)].chunk, Len(body) = 2)

\* A first chunk with reasoning text, answer text, two tool calls and usage
\* has given six events.
C33_Witness ==
    /\ Len(body) = 1 /\ nread = 1 /\ pc = "reading"
    /\ Stages(sink) = <<"thinking", "thinking_complete", "streaming",
                        "tool_call", "tool_call", "usage">>

\* The lines before the first "[DONE]" line, or all lines if there is none.
RECURSIVE BeforeDone(_)
BeforeDone(ls) ==
    IF ls = << >> \/ Head(ls).kind = "done"
    THEN << >>
    ELSE <<Head(ls)>> \o BeforeDone(Tail(ls))

\* C34: a session that has ended has made the callbacks of the lines before
\* the first "[DONE]" line, or of all lines when the body ends without one,
\* followed by the single callback("complete", answer, true): no line after
\* the marker has produced an event.
C34_NothingAfterEndMarker ==
    pc = "returned" =>
        LET st == DecodeAll(FreshDecoder, BeforeDone(body))
        IN  /\ sink = Append(st.sink, Event("complete", st.answerContent, TRUE))
            /\ ret = "nil"

\* A body with answer text, the marker and more answer text has ended with
\* the events of the first line and "complete".
C34_Witness ==
    /\ body = <<AnswerLine, DoneLine, AnswerLine>>
    /\ pc = "returned"
    /\ Stages(sink) = <<"thinking_complete", "streaming", "complete">>

(***************************************************************************)
(* Further properties of the request (SpecRequest).                        *)
(***************************************************************************)
\* The value of the key "enable_thinking" in reqBody.ExtraBody; false when
\* the map is not set.
EffectiveMode == <<"enable_thinking", TRUE>> \in BuildRequest(messages, params).ExtraBody

\* C35: in a call that has issued its request, the effective reasoning mode
\* is disabled when the history is empty or its last message is not a user
\* message, whatever q.params holds and whatever earlier messages say; and
\* when the last message is a user message it is what the parser gives for
\* that message alone.
C35_ParserOnlyOnLastUserMessage ==
    sent # << >> =>
        IF Len(messages) = 0 \/ messages[Len(messages)].Role # "user"
        THEN ~EffectiveMode
        ELSE LET last == messages[Len(messages)].Content
             IN  EffectiveMode =
                     IF Clean(last) THEN params.EnableThinking ELSE EndsWith(last, "/think")

\* A call whose history is a user message ending with "/think" followed by
\* an assistant message ending with "/think", on a client whose default is
\* true, has issued its request with the mode disabled.
C35_Witness ==
    /\ sent # << >>
    /\ messages = << [Role |-> "user", Content |-> <<"/think">>],
                     [Role |-> "assistant", Content |-> <<"/think">>] >>
    /\ params.EnableThinking
    /\ ~EffectiveMode

RECURSIVE StageText(_, _)
StageText(s, stage) ==
    IF s = << >> THEN EmptyText
    ELSE (IF Head(s).stage = stage THEN Head(s).content ELSE EmptyText)
         \o StageText(Tail(s), stage)

\* C39: when ChatWithThinkingStream has returned without error,
\* ChatWithThinking returns a response whose ReasoningContent is the
\* concatenation of the "thinking" texts, whose AnswerContent is the
\* concatenation of the "streaming" texts and the text of the "complete"
\* event, and whose IsComplete is true; when it has returned an error,
\* ChatWithThinking returns that error and a nil response.
C39_ResponseCollectsTheStream ==
    Decoding /\ pc = "returned" =>
        LET r == ChatWithThinkingReturn
        IN  IF ret = "nil"
            THEN /\ ~r.isNil /\ r.err = "nil"
                 /\ r.response.ReasoningContent = StageText(sink, "thinking")
                 /\ r.response.AnswerContent = StageText(sink, "streaming")
                 /\ r.response.AnswerContent = sink[Len(sink)].content
                 /\ sink[Len(sink)].stage = "complete"
                 /\ r.response.IsComplete
            ELSE r.isNil /\ r.err = "error"

\* A stream with reasoning text and two answer texts has ended without
\* error.
C39_Witness ==
    /\ Decoding /\ pc = "returned" /\ ret = "nil"
    /\ ChatWithThinkingReturn.response.ReasoningContent # EmptyText
    /\ Len(ChatWithThinkingReturn.response.AnswerContent) = 2

(***************************************************************************)
(* Properties of the write pump (SpecDrain).                               *)
(***************************************************************************)
\* C37: once the outbound queue of a connection has been released, its
\* writePump eventually terminates with the transport closed (the
\* termination part of the claim: it does not wait forever on the released
\* queue).
C37_ReleasedQueueEndsTheDrainTask ==
    \A c \in Conns : sendClosed[c] ~> (wpumpc[c] = "done" /\ connClosed[c])

(***************************************************************************)
(* Properties of the broadcast case (SpecBroadcast).                       *)
(***************************************************************************)
\* C38: in a broadcast, the iteration for a tracked connection whose queue
\* has room appends the message to that queue and changes no membership;
\* the iteration for one whose queue is full removes that connection only
\* and then releases its queue; neither ends the process, so the remaining
\* connections are still served.
C38_BroadcastServesEveryMember ==
    [][/\ \A c \in Conns :
            HubBroadcastTo(c) =>
                /\ fatal' = fatal
                /\ IF Len(send[c]) < SendCap
                   THEN /\ send' = [send EXCEPT ![c] = Append(@, BroadcastMessage)]
                        /\ clients' = clients
                   ELSE /\ send' = send
                        /\ clients' = clients \ {c}
       /\ HubBroadcastClose =>
                /\ fatal' = fatal
                /\ sendClosed' = [sendClosed EXCEPT ![hubpc[2]] = TRUE]
                /\ clients' = clients]_vars
====
